---------------------------- MODULE Spec2Model ----------------------------
(***************************************************************************)
(* Vaisala ceilometer reader of cloudnetpy (src/cloudnetpy/ceilo.py):      *)
(* model detection, session creation, read_ceilometer_file (record         *)
(* splitting, header decoding, metadata merging, backscatter decoding,     *)
(* range grid), and calc_beta (range squared, saturated profiles, the raw  *)
(* screening pass, cloud-aware smoothing, the smoothed screening pass).     *)
(*                                                                         *)
(* Text is modelled at character level: a Python str is a sequence of      *)
(* one-character strings, a text line keeps its terminating "\n".          *)
(* An attribute that may be None is a sequence of length 0 (None) or       *)
(* 1 (the value).  A numpy array is modelled by its value; the array       *)
(* object that a local name of calc_beta is bound to is kept beside it, so  *)
(* that a write in place reaches every name bound to the written array.     *)
(***************************************************************************)
EXTENDS Integers, Sequences, FiniteSets, TLC

VARIABLES
    file,            \* all lines of the input file
    pc,              \* position in ceilo2nc / read_ceilometer_file, or in a method called alone
    err,             \* the exception that ended the run, "none" while there is none
    ceilo,           \* class of the session object: "None", "Cl51", "Cl31", "Ct25k"
    model,           \* self.model
    message_number,  \* self.message_number
    time,            \* self.time
    metadata,        \* self.metadata
    backscatter,     \* self.backscatter
    range,           \* self.range
    data_lines,      \* local data_lines of read_ceilometer_file
    header,          \* local header list of read_ceilometer_file
    lines,           \* argument of _read_backscatter
    profiles,        \* local integer matrix of _read_backscatter
    detected,        \* local model of _initialize_ceilo: what _find_ceilo_model returned
    entry,           \* the function that was called: "ceilo2nc", or a method called alone
    range_squared,   \* local range_squared of calc_beta
    is_saturation,   \* local is_saturation of calc_beta
    smooth,          \* argument smooth of _screening_wrapper
    beta_in,         \* local beta_in of _screening_wrapper
    noise_at_top,    \* local noise_at_top of _screen_by_snr
    beta,            \* local beta of calc_beta
    beta_again,      \* what _screening_wrapper returns when it is called on its own result
    calls,           \* number of calls of _screening_wrapper that have returned
    beta_smooth,     \* local beta_smooth of calc_beta
    cloud_ind,       \* local cloud_ind of calc_beta
    cloud_values,    \* local cloud_values of calc_beta
    screened,        \* local beta of _screen_by_snr
    ident,           \* the array object that each local array name is bound to
    kernel,          \* the smoothing that gaussian_filter applies
    returned         \* the pairs that earlier calls of calc_beta returned

\* the second half of calc_beta, the locals of _screen_by_snr, the array objects
smoothVars == <<beta_smooth, cloud_ind, cloud_values, screened, ident, kernel, returned>>

\* the state of calc_beta
betaVars == <<range_squared, is_saturation, smooth, beta_in, noise_at_top, beta,
              beta_again, calls, smoothVars>>

vars == <<file, pc, err, ceilo, model, message_number, time, metadata,
          backscatter, range, data_lines, header, lines, profiles, detected, entry,
          betaVars>>

-----------------------------------------------------------------------------
(* Bounds of the model *)

\* most messages (blank-line separated blocks) in a generated file
MaxMsgs == 2
\* most lines before the first blank line of a generated file
MaxPre == 1
\* most profile lines handed to _read_backscatter when it is called alone
MaxProfiles == 2
\* most whole gates in a profile line handed to _read_backscatter
MaxGates == 2
\* most messages in the header dictionaries handed to _handle_metadata
MaxMetaLen == 2
\* most lines handed to _read_header_line_1 when it is called alone
MaxHeadLines == 2
\* most lines of a file handed to _fetch_data_lines when it is called alone
MaxLines == 5

-----------------------------------------------------------------------------
(* Python values *)

None == <<>>
Some(x) == <<x>>
IsNone(x) == Len(x) = 0
Val(x) == x[1]

Min(a, b) == IF a < b THEN a ELSE b
Max(a, b) == IF a > b THEN a ELSE b

NL == "\n"
CR == "\r"
SOH == "SOH"
STX == "STX"
Whitespace == {" ", NL, CR, "\t"}

\* s[a:b] for 0 <= a, 0 <= b: the slice is clipped to the string, never raises
Slice(s, a, b) ==
    IF a >= Min(b, Len(s)) THEN <<>> ELSE SubSeq(s, a + 1, Min(b, Len(s)))

\* s[a:]
SliceFrom(s, a) == Slice(s, a, Len(s))

RECURSIVE LStrip(_)
LStrip(s) ==
    IF s = <<>> THEN <<>>
    ELSE IF Head(s) \in Whitespace THEN LStrip(Tail(s)) ELSE s

RECURSIVE RStrip(_)
RStrip(s) ==
    IF s = <<>> THEN <<>>
    ELSE IF s[Len(s)] \in Whitespace THEN RStrip(SubSeq(s, 1, Len(s) - 1)) ELSE s

\* str.strip()
Strip(s) == RStrip(LStrip(s))

\* str.split(): the maximal runs of non-whitespace characters
RECURSIVE SplitWs(_, _, _)
SplitWs(s, cur, acc) ==
    IF s = <<>> THEN (IF cur = <<>> THEN acc ELSE Append(acc, cur))
    ELSE IF Head(s) \in Whitespace
         THEN SplitWs(Tail(s), <<>>, IF cur = <<>> THEN acc ELSE Append(acc, cur))
         ELSE SplitWs(Tail(s), Append(cur, Head(s)), acc)

Split(s) == SplitWs(s, <<>>, <<>>)

\* str.split(sep) for a one-character separator: empty fields are kept
RECURSIVE SplitSep(_, _, _, _)
SplitSep(s, sep, cur, acc) ==
    IF s = <<>> THEN Append(acc, cur)
    ELSE IF Head(s) = sep
         THEN SplitSep(Tail(s), sep, <<>>, Append(acc, cur))
         ELSE SplitSep(Tail(s), sep, Append(cur, Head(s)), acc)

SplitOn(s, sep) == SplitSep(s, sep, <<>>, <<>>)

HexDigits == <<"0", "1", "2", "3", "4", "5", "6", "7", "8", "9",
               "A", "B", "C", "D", "E", "F">>

DigitValue(c) == (CHOOSE i \in 1..Len(HexDigits) : HexDigits[i] = c) - 1

IsDigit(c, base) ==
    \E i \in 1..base : HexDigits[i] = c

RECURSIVE DigitsValue(_, _)
DigitsValue(s, base) ==
    IF s = <<>> THEN 0
    ELSE DigitsValue(SubSeq(s, 1, Len(s) - 1), base) * base + DigitValue(s[Len(s)])

\* int(s, base): surrounding whitespace is dropped, one sign is allowed, at
\* least one digit must follow and nothing else may; [ok |-> FALSE] is ValueError.
\* (The model's alphabet has no "_", "x" or lower-case letter, the other
\* things int() accepts.)
PyInt(s, base) ==
    LET t == Strip(s)
        signed == t # <<>> /\ Head(t) \in {"+", "-"}
        digits == IF signed THEN Tail(t) ELSE t
    IN  IF digits # <<>> /\ \A i \in 1..Len(digits) : IsDigit(digits[i], base)
        THEN [ok |-> TRUE,
              val |-> IF signed /\ Head(t) = "-"
                      THEN 0 - DigitsValue(digits, base)
                      ELSE DigitsValue(digits, base)]
        ELSE [ok |-> FALSE, val |-> 0]


-----------------------------------------------------------------------------
(* Results of operations that may raise *)

Ok(v) == [err |-> "none", val |-> v]
Raise(e) == [err |-> e, val |-> <<>>]

-----------------------------------------------------------------------------
(* Model detection and session creation *)

is_empty_line(line) == line = <<NL>> \/ line = <<CR, NL>>

\* 1-based number of the first empty line; number of lines + 1 when there is none
RECURSIVE FirstEmptyFrom(_, _)
FirstEmptyFrom(f, line_number) ==
    IF line_number > Len(f) THEN line_number
    ELSE IF is_empty_line(f[line_number]) THEN line_number
    ELSE FirstEmptyFrom(f, line_number + 1)

find_first_empty_line(f) == FirstEmptyFrom(f, 1)

\* linecache.getline(file, lineno): '' for a line number outside the file
getline(f, lineno) == IF lineno \in 1..Len(f) THEN f[lineno] ELSE <<>>

\* mutant: the detector reads the line right after the first blank line
HintLineOffsetNext == 2 - 1

HintLineOffset == 2

ceilo_hint(f) == Slice(getline(f, find_first_empty_line(f) + HintLineOffset), 1, 5)

find_ceilo_model(f) ==
    LET hint == ceilo_hint(f)
    IN  IF hint = <<"C", "L", "0", "1">> THEN "cl51"
        ELSE IF hint = <<"C", "L", "0", "2">> THEN "cl31"
        ELSE IF hint = <<"C", "T", "0", "2">> THEN "ct25k"
        ELSE "None"

\* the class _initialize_ceilo instantiates for the model the detector found
initialize_ceilo(m) ==
    IF m = "cl51" THEN "Cl51"
    ELSE IF m = "cl31" THEN "Cl31"
    ELSE "Ct25k"

\* self.model as set by the constructors
ModelOf(class) ==
    IF class = "Cl51" THEN "cl51"
    ELSE IF class = "Cl31" THEN "cl31"
    ELSE "ct25k"

\* 'cl' in self.model
HasCl(m) == m \in {"cl51", "cl31"}

\* mutant: ClCeilo splits a profile line every 4 characters
ClNCharsFour == 2 + 2

ClNChars == 5
ClOverflowMask == 524288
ClOverflowSubtrahend == 1048576
ClScaleFactor == 100000000
CtNChars == 4
CtOverflowMask == 32768
CtOverflowSubtrahend == 65536
CtScaleFactor == 10000000

\* self._hex_conversion_params
hex_conversion_params(m) ==
    IF HasCl(m) THEN <<ClNChars, ClOverflowMask, ClOverflowSubtrahend>>
    ELSE <<CtNChars, CtOverflowMask, CtOverflowSubtrahend>>

\* self._backscatter_scale_factor
backscatter_scale_factor(m) == IF HasCl(m) THEN ClScaleFactor ELSE CtScaleFactor

-----------------------------------------------------------------------------
(* Record splitter *)

\* 0-based indices of the empty lines of data, ascending
RECURSIVE EmptyFrom(_, _)
EmptyFrom(data, n) ==
    IF n >= Len(data) THEN <<>>
    ELSE IF is_empty_line(data[n + 1]) THEN <<n>> \o EmptyFrom(data, n + 1)
    ELSE EmptyFrom(data, n + 1)

parse_empty_lines(data) == EmptyFrom(data, 0)

parse_data_lines(data, empty_indices) ==
    IF Len(empty_indices) < 2 THEN Raise("IndexError")
    ELSE LET number_of_data_lines == empty_indices[2] - empty_indices[1] - 1
             last == empty_indices[Len(empty_indices)]
         IN  IF number_of_data_lines >= 1 /\ last + number_of_data_lines >= Len(data)
             THEN Raise("IndexError")
             ELSE IF number_of_data_lines < 1 THEN Ok(<<>>)
             ELSE Ok([line_number \in 1..number_of_data_lines |->
                        [i \in 1..Len(empty_indices) |->
                            data[empty_indices[i] + (line_number - 1) + 1 + 1]]])

screen_empty_lines(data) == parse_data_lines(data, parse_empty_lines(data))

\* list[i] for a Python index i, negative ones counted from the end
PyIndex(list, i) ==
    LET j == IF i < 0 THEN Len(list) + i + 1 ELSE i + 1
    IN  IF j \in 1..Len(list) THEN Ok(list[j]) ELSE Raise("IndexError")

\* list[a:b] for 0 <= a <= b
ListSlice(list, a, b) ==
    IF a >= Min(b, Len(list)) THEN <<>> ELSE SubSeq(list, a + 1, Min(b, Len(list)))

-----------------------------------------------------------------------------
(* Header decoding *)

split_string(string, indices) ==
    [j \in 1..(Len(indices) - 1) |-> Slice(string, indices[j], indices[j + 1])]

\* out[key] = array of x[i] over the rows x of values; IndexError for a short row
values_to_dict(keys, values) ==
    IF \E r \in 1..Len(values) : Len(values[r]) < Len(keys) THEN Raise("IndexError")
    ELSE Ok([k \in {keys[i] : i \in 1..Len(keys)} |->
               [r \in 1..Len(values) |->
                   values[r][CHOOSE i \in 1..Len(keys) : keys[i] = k]]])

Line1Keys == <<"model_id", "unit_id", "software_version", "message_number",
               "message_subclass">>
\* mutant: ClCeilo slices header line 1 at the offsets of Ct25k
Line1IndicesClAsCt == <<1, 3, 4, 6, 7, 8>>

Line1IndicesCl == <<1, 3, 4, 7, 8, 9>>
Line1IndicesCt == <<1, 3, 4, 6, 7, 8>>

line_1_indices(m) == IF HasCl(m) THEN Line1IndicesCl ELSE Line1IndicesCt

read_header_line_1(m, ls) ==
    values_to_dict(Line1Keys,
                   [r \in 1..Len(ls) |-> split_string(ls[r], line_1_indices(m))])

Line2Keys == <<"detection_status", "warning", "cloud_base_data", "warning_flags">>

read_header_line_2(ls) ==
    IF \E r \in 1..Len(ls) : Len(ls[r]) < 2 THEN Raise("IndexError")
    ELSE values_to_dict(Line2Keys,
                        [r \in 1..Len(ls) |->
                            <<ls[r][1], ls[r][2], Slice(ls[r], 3, 20),
                              Strip(SliceFrom(ls[r], 21))>>])

\* len(np.unique(a)) = 1
AllSame(a) == Len(a) >= 1 /\ \A i \in 1..Len(a) : a[i] = a[1]

\* mutant: the first message's number is taken without the assertion
get_message_number_unchecked(header_line_1) ==
    LET msg_no == header_line_1["message_number"]
    IN  IF ~PyInt(msg_no[1], 10).ok THEN Raise("ValueError")
        ELSE Ok(PyInt(msg_no[1], 10).val)

get_message_number(header_line_1) ==
    LET msg_no == header_line_1["message_number"]
    IN  IF ~AllSame(msg_no) THEN Raise("AssertionError")
        ELSE IF ~PyInt(msg_no[1], 10).ok THEN Raise("ValueError")
        ELSE Ok(PyInt(msg_no[1], 10).val)

Line3KeysCl == <<"cloud_detection_status", "cloud_amount_data">>
Line3KeysCt == <<"scale", "measurement_mode", "laser_energy", "laser_temperature",
                 "receiver_sensitivity", "window_contamination", "tilt_angle",
                 "background_light", "measurement_parameters", "backscatter_sum">>
Line4Keys == <<"scale", "range_resolution", "number_of_gates", "laser_energy",
               "laser_temperature", "window_transmission", "tilt_angle",
               "background_light", "measurement_parameters", "backscatter_sum">>

\* mutant: ClCeilo decodes header line 3 for every message number but 1
cl_has_line_3_not_1(msg) == msg # 1

\* ClCeilo._read_header_line_3 decodes the line
cl_has_line_3(msg) == msg = 2

\* Ct25k._read_header_line_3 decodes the line
ct_has_line_3(msg) == msg \notin {1, 3, 6}

has_line_3(m, msg) == IF HasCl(m) THEN cl_has_line_3(msg) ELSE ct_has_line_3(msg)

\* the dictionary, or None
read_header_line_3(m, msg, ls) ==
    IF ~has_line_3(m, msg) THEN Ok(None)
    ELSE LET d == IF HasCl(m)
                  THEN values_to_dict(Line3KeysCl,
                          [r \in 1..Len(ls) |->
                              <<Slice(ls[r], 0, 3), Strip(SliceFrom(ls[r], 3))>>])
                  ELSE values_to_dict(Line3KeysCt,
                          [r \in 1..Len(ls) |-> Split(ls[r])])
         IN  IF d.err # "none" THEN d ELSE Ok(Some(d.val))

read_header_line_4(ls) ==
    values_to_dict(Line4Keys, [r \in 1..Len(ls) |-> Split(ls[r])])

\* time (hh:mm:ss) as fraction hour, in units of 1/3600 hour
time_to_fraction_hour(t) ==
    LET p == SplitOn(t, ":")
    IN  IF Len(p) # 3 THEN Raise("ValueError")
        ELSE IF \E i \in 1..3 : ~PyInt(p[i], 10).ok THEN Raise("ValueError")
        ELSE Ok(PyInt(p[1], 10).val * 3600
                + (PyInt(p[2], 10).val * 60 + PyInt(p[3], 10).val))

calc_time(time_lines) ==
    IF \E r \in 1..Len(time_lines) : Len(Split(time_lines[r])) < 2
    THEN Raise("IndexError")
    ELSE LET t == [r \in 1..Len(time_lines) |->
                      time_to_fraction_hour(Split(time_lines[r])[2])]
         IN  IF \E r \in 1..Len(t) : t[r].err # "none" THEN Raise("ValueError")
             ELSE Ok([r \in 1..Len(t) |-> t[r].val])


-----------------------------------------------------------------------------
(* Metadata merger *)

\* a header dictionary maps a field name to the array of its values, one per
\* message.  A value of the merged metadata is tagged with its Python type:
\*   [t |-> "arr",  v |-> strings]    numpy array of strings
\*   [t |-> "str",  v |-> string]     a string
\*   [t |-> "int",  v |-> n]          an int
\*   [t |-> "list", v |-> elements]   a list of "int", "str" and "none" elements
\*   [t |-> "none"]                   None

\* {**a, **b}
MergeDict(a, b) ==
    [k \in (DOMAIN a) \cup (DOMAIN b) |-> IF k \in DOMAIN b THEN b[k] ELSE a[k]]

EmptyDict == [k \in {} |-> <<>>]

RECURSIVE ConcatFrom(_, _, _)
ConcatFrom(hdr, i, meta) ==
    IF i > Len(hdr) THEN Ok(meta)
    ELSE IF IsNone(hdr[i]) THEN Raise("TypeError")
    ELSE ConcatFrom(hdr, i + 1, MergeDict(meta, Val(hdr[i])))

concatenate_meta(hdr) == ConcatFrom(hdr, 1, EmptyDict)

remove_meta_duplicates(meta) ==
    [field \in DOMAIN meta |->
        IF AllSame(meta[field]) THEN [t |-> "str", v |-> meta[field][1]]
        ELSE [t |-> "arr", v |-> meta[field]]]

int_variables == {"tilt_angle", "message_number", "scale"}

\* an element of a converted array: the int, or what is left when int() raises
convert_element(value) ==
    IF PyInt(value, 10).ok THEN [t |-> "int", v |-> PyInt(value, 10).val]
    ELSE [t |-> "none"]

\* a field that is a string: int() without a handler for the fixed fields
convert_scalar(field, values) ==
    IF field \in int_variables
    THEN (IF PyInt(values.v, 10).ok
          THEN Ok([t |-> "int", v |-> PyInt(values.v, 10).val])
          ELSE Raise("ValueError"))
    ELSE Ok(values)

convert_field(field, values) ==
    IF values.t = "str" THEN convert_scalar(field, values)
    ELSE Ok([t |-> "list",
             v |-> [ind \in 1..Len(values.v) |-> convert_element(values.v[ind])]])

convert_meta_strings(meta) ==
    IF \E field \in DOMAIN meta : convert_field(field, meta[field]).err # "none"
    THEN Raise("ValueError")
    ELSE Ok([field \in DOMAIN meta |-> convert_field(field, meta[field]).val])

handle_metadata(hdr) ==
    LET meta == concatenate_meta(hdr)
    IN  IF meta.err # "none" THEN meta
        ELSE convert_meta_strings(remove_meta_duplicates(meta.val))

-----------------------------------------------------------------------------
(* Backscatter decoder *)

\* a backscatter value is num / den * (r * M2KM)^2; r = KM2M where no range
\* factor has been applied
KM2M == 1000

Cell(num, den) == [num |-> num, den |-> den, r |-> KM2M]

\* the integers of one profile line, or all zeros when a chunk raises ValueError
decode_line(line, n_chars, n_gates) ==
    LET chunk(g) == PyInt(Slice(line, (g - 1) * n_chars, g * n_chars), 16)
    IN  IF \A g \in 1..n_gates : chunk(g).ok
        THEN [g \in 1..n_gates |-> chunk(g).val]
        ELSE [g \in 1..n_gates |-> 0]

\* mutant: a comparison in place of the bit test, off by one
overflow_flagged_above(v, mask) == v > mask

\* v & mask != 0, for mask a power of two and any int v (two's complement)
overflow_flagged(v, mask) == (v \div mask) % 2 = 1

overflow_correct(v, mask, subtrahend) ==
    IF overflow_flagged(v, mask) THEN v - subtrahend ELSE v

\* the integer matrix of _read_backscatter before the overflow correction
raw_profiles(m, ls) ==
    LET n_chars == hex_conversion_params(m)[1]
        n_gates == Len(ls[1]) \div n_chars
    IN  [ind \in 1..Len(ls) |-> decode_line(ls[ind], n_chars, n_gates)]

\* the overflow correction and the scaling of the integer matrix
correct_and_scale(m, prof) ==
    LET p == hex_conversion_params(m)
    IN  [ind \in 1..Len(prof) |->
            [g \in 1..Len(prof[ind]) |->
                Cell(overflow_correct(prof[ind][g], p[2], p[3]),
                     backscatter_scale_factor(m))]]

read_backscatter(m, ls) ==
    IF Len(ls) = 0 THEN Raise("IndexError")
    ELSE Ok(correct_and_scale(m, raw_profiles(m, ls)))

RECURSIVE Join(_)
Join(parts) == IF Len(parts) = 0 THEN <<>> ELSE Head(parts) \o Join(Tail(parts))

HexPrefixLen == 3
HexLinesPerProfile == 16

\* ct25k: one string per profile out of the 16 hex lines of its message
parse_hex_profiles(ls) ==
    IF Len(ls) < HexLinesPerProfile THEN Raise("IndexError")
    ELSE Ok([n \in 1..Len(ls[1]) |->
               Join([l \in 1..HexLinesPerProfile |->
                        Strip(SliceFrom(ls[l][n], HexPrefixLen))])])

-----------------------------------------------------------------------------
(* Range grid *)

CtRangeResolution == 30
CtNGates == 256

\* mutant: the gate at 2400 m is corrected too
AltitudeLimitBelow == 2400 - 30

AltitudeLimit == 2400

\* int(x) of a metadata value
meta_int(x) ==
    IF x.t = "int" THEN Ok(x.v)
    ELSE IF x.t = "str"
         THEN (IF PyInt(x.v, 10).ok THEN Ok(PyInt(x.v, 10).val) ELSE Raise("ValueError"))
    ELSE Raise("TypeError")

calc_range(m, meta) ==
    IF m = "ct25k" THEN Ok([i \in 1..CtNGates |-> i * CtRangeResolution])
    ELSE LET n_gates == meta_int(meta["number_of_gates"])
             range_resolution == meta_int(meta["range_resolution"])
         IN  IF n_gates.err # "none" THEN n_gates
             ELSE IF range_resolution.err # "none" THEN range_resolution
             ELSE IF n_gates.val < 1 THEN Ok(<<>>)
             ELSE Ok([i \in 1..n_gates.val |-> i * range_resolution.val])

\* ct25k: columns above the altitude limit are multiplied by (range * M2KM)^2
range_correct_upper_part(b, rng) ==
    IF \E g \in 1..Len(rng) : rng[g] > AltitudeLimit /\ \E p \in 1..Len(b) : g > Len(b[p])
    THEN Raise("IndexError")
    ELSE Ok([p \in 1..Len(b) |->
               [g \in 1..Len(b[p]) |->
                   IF g <= Len(rng) /\ rng[g] > AltitudeLimit
                   THEN [b[p][g] EXCEPT !.r = rng[g]]
                   ELSE b[p][g]]])


-----------------------------------------------------------------------------
(* Input files of the model *)

BlankLine == <<NL>>
PreLine == <<"#", NL>>

\* "-d 00:00:0i": date and time of message i
TimeLine(i) == <<"-", "d", " ", "0", "0", ":", "0", "0", ":", "0", HexDigits[i + 1], NL>>

\* the 4 characters the detector reads: three known signatures, two unknown ones
Signatures == {<<"C", "L", "0", "1">>, <<"C", "L", "0", "2">>, <<"C", "T", "0", "2">>,
               <<"C", "L", "0", "3">>, <<"C", "T", "0", "1">>}

\* message number characters: of the numbers, ClCeilo decodes header line 3
\* for 2, Ct25k for 2 and 4; "A" is no number
MsgChars == {"1", "2", "3", "4", "6", "A"}

\* tilt angle tokens of header line 4 (CL) and 3 (CT)
Tilts == {<<"1", "2">>, <<"1", ".", "5">>}

\* number_of_gates tokens of header line 4 (CL): the gates of the data line, one more
GateTokens == {"2", "3"}

ClLayout(sig) == sig[1] = "C" /\ sig[2] = "L"

\* header line 1: SOH, model id, unit id, software version, message number,
\* message subclass, STX, at the offsets of the family
Line1(sig, m) ==
    IF ClLayout(sig) THEN <<SOH>> \o sig \o <<"0", "0", m, "1", STX, NL>>
    ELSE <<SOH>> \o sig \o <<"0", m, "0", STX, NL>>

Line2 == <<"0", "W", " ", "/", "/", " ", "0", "0", NL>>

ClLine3 == <<" ", " ", "3", " ", "0", "5", NL>>

\* scale, range resolution, number of gates, laser energy, laser temperature,
\* window transmission, tilt angle, background light, parameters, sum
ClLine4(tilt, gates) ==
    <<"1", " ", "5", " ", gates, " ", "7", " ", "+", "3", " ", "9", " ">> \o tilt
    \o <<" ", "1", " ", "L", " ", "5", NL>>

\* two gates of 5 hex characters: 1 and 80000 (overflow bit set)
ClDataLine == <<"0", "0", "0", "0", "1", "8", "0", "0", "0", "0", NL>>

EndLine == <<"E", "T", "X", NL>>

\* scale, measurement mode, laser energy, laser temperature, receiver
\* sensitivity, window contamination, tilt angle, background light, parameters, sum
CtLine3(tilt) ==
    <<"1", " ", "N", " ", "7", " ", "+", "3", " ", "9", " ", "0", " ">> \o tilt
    \o <<" ", "1", " ", "L", " ", "5", NL>>

RECURSIVE Rep(_, _)
Rep(s, n) == IF n = 0 THEN <<>> ELSE s \o Rep(s, n - 1)

\* hex line l of a ct25k message: 3 characters of height, 16 gates of 4 hex characters
CtHexLine(l) ==
    <<"0", "0", HexDigits[l]>>
    \o Rep(<<"0", "0", "0", "1">>, 8) \o Rep(<<"8", "0", "0", "0">>, 8) \o <<NL>>

Message(sig, m, i, tilt, gates) ==
    IF ClLayout(sig)
    THEN <<BlankLine, TimeLine(i), Line1(sig, m), Line2, ClLine3, ClLine4(tilt, gates),
           ClDataLine, EndLine>>
    ELSE <<BlankLine, TimeLine(i), Line1(sig, m), Line2, CtLine3(tilt)>>
         \o [l \in 1..HexLinesPerProfile |-> CtHexLine(l)] \o <<EndLine>>

RECURSIVE Messages(_, _, _, _, _)
Messages(sig, ms, i, tilt, gates) ==
    IF i > Len(ms) THEN <<>>
    ELSE Message(sig, ms[i], i, tilt, gates) \o Messages(sig, ms, i + 1, tilt, gates)

InputFile(pre, sig, ms, tilt, gates) ==
    Rep(<<PreLine>>, pre) \o Messages(sig, ms, 1, tilt, gates)

-----------------------------------------------------------------------------
(* ceilo2nc: _initialize_ceilo, then read_ceilometer_file, statement by statement *)

\* no local name of calc_beta is bound to an array object; the array of
\* ceilo.backscatter is object 1 and the arrays made later are 2, 3, ...
NoArrays == [beta_in |-> 0, beta |-> 0, beta_smooth |-> 0, screened |-> 0]

\* calc_beta has not been called
NoBeta ==
    /\ range_squared = None
    /\ is_saturation = None
    /\ smooth = FALSE
    /\ beta_in = None
    /\ noise_at_top = None
    /\ beta = None
    /\ beta_again = None
    /\ calls = 0
    /\ beta_smooth = None
    /\ cloud_ind = None
    /\ cloud_values = None
    /\ screened = None
    /\ ident = NoArrays
    /\ kernel = "none"
    /\ returned = <<>>

Unset ==
    /\ NoBeta
    /\ ceilo = "None"
    /\ model = "None"
    /\ message_number = None
    /\ time = None
    /\ metadata = None
    /\ backscatter = None
    /\ range = None
    /\ data_lines = <<>>
    /\ header = <<>>
    /\ lines = <<>>
    /\ profiles = None
    /\ detected = "unset"
    /\ err = "none"

Init ==
    /\ \E pre \in 0..MaxPre, n \in 0..MaxMsgs, sig \in Signatures, tilt \in Tilts,
            gates \in GateTokens :
         \E ms \in [1..n -> MsgChars] :
            file = InputFile(pre, sig, ms, tilt, gates)
    /\ pc = "find_ceilo_model"
    /\ entry = "ceilo2nc"
    /\ Unset

\* the columns of data_lines that read_ceilometer_file hands to its decoders
TimeColumn == 0
Line1Column == 1
\* mutant: header line 2 is decoded from the column of header line 1
Line2ColumnOne == 2 - 1
Line2Column == 2
Line3Column == 3
Line4Column == 0 - 3
ClDataColumn == 0 - 2
CtHexFirstColumn == 4
CtHexEndColumn == 20

\* an exception ends the run
Fail(e) == /\ pc' = "failed"
           /\ err' = e

\* the pc after `step` of read_ceilometer_file; a method called alone returns
After(step, next) == IF entry = step THEN "returned" ELSE next

\* _initialize_ceilo, first statement
FindCeiloModel ==
    /\ pc = "find_ceilo_model"
    /\ detected' = find_ceilo_model(file)
    /\ pc' = "initialize_ceilo"
    /\ UNCHANGED betaVars
    /\ UNCHANGED <<file, err, ceilo, model, message_number, time, metadata,
                   backscatter, range, data_lines, header, lines, profiles, entry>>

\* _initialize_ceilo, the choice of the class, and its constructor
Initialize ==
    /\ pc = "initialize_ceilo"
    /\ ceilo' = initialize_ceilo(detected)
    /\ model' = ModelOf(initialize_ceilo(detected))
    /\ pc' = "fetch_data_lines"
    /\ UNCHANGED betaVars
    /\ UNCHANGED <<file, err, message_number, time, metadata, backscatter, range,
                   data_lines, header, lines, profiles, detected, entry>>

FetchDataLines ==
    /\ pc = "fetch_data_lines"
    /\ LET r == screen_empty_lines(file)
       IN  IF r.err # "none"
           THEN Fail(r.err) /\ UNCHANGED data_lines
           ELSE /\ data_lines' = r.val
                /\ pc' = After("fetch_data_lines", "calc_time")
                /\ UNCHANGED err
    /\ UNCHANGED betaVars
    /\ UNCHANGED <<file, ceilo, model, message_number, time, metadata, backscatter,
                   range, header, lines, profiles, detected, entry>>

CalcTime ==
    /\ pc = "calc_time"
    /\ LET arg == PyIndex(data_lines, TimeColumn)
           r == IF arg.err # "none" THEN arg ELSE calc_time(arg.val)
       IN  IF r.err # "none"
           THEN Fail(r.err) /\ UNCHANGED time
           ELSE time' = Some(r.val) /\ pc' = "read_header_line_1" /\ UNCHANGED err
    /\ UNCHANGED betaVars
    /\ UNCHANGED <<file, ceilo, model, message_number, metadata, backscatter, range,
                   data_lines, header, lines, profiles, detected, entry>>

ReadHeaderLine1 ==
    /\ pc = "read_header_line_1"
    /\ LET arg == PyIndex(data_lines, Line1Column)
           r == IF arg.err # "none" THEN arg ELSE read_header_line_1(model, arg.val)
       IN  IF r.err # "none"
           THEN Fail(r.err) /\ UNCHANGED header
           ELSE /\ header' = Append(header, Some(r.val))
                /\ pc' = After("read_header_line_1", "get_message_number")
                /\ UNCHANGED err
    /\ UNCHANGED betaVars
    /\ UNCHANGED <<file, ceilo, model, message_number, time, metadata, backscatter,
                   range, data_lines, lines, profiles, detected, entry>>

GetMessageNumber ==
    /\ pc = "get_message_number"
    /\ LET r == get_message_number(Val(header[1]))
       IN  IF r.err # "none"
           THEN Fail(r.err) /\ UNCHANGED message_number
           ELSE message_number' = Some(r.val) /\ pc' = "read_header_line_2"
                /\ UNCHANGED err
    /\ UNCHANGED betaVars
    /\ UNCHANGED <<file, ceilo, model, time, metadata, backscatter, range,
                   data_lines, header, lines, profiles, detected, entry>>

ReadHeaderLine2 ==
    /\ pc = "read_header_line_2"
    /\ LET arg == PyIndex(data_lines, Line2Column)
           r == IF arg.err # "none" THEN arg ELSE read_header_line_2(arg.val)
       IN  IF r.err # "none"
           THEN Fail(r.err) /\ UNCHANGED header
           ELSE header' = Append(header, Some(r.val)) /\ pc' = "read_header_line_3"
                /\ UNCHANGED err
    /\ UNCHANGED betaVars
    /\ UNCHANGED <<file, ceilo, model, message_number, time, metadata, backscatter,
                   range, data_lines, lines, profiles, detected, entry>>

\* the last statement of _read_common_header_part; a ClCeilo goes on to header
\* line 4, a Ct25k to the metadata
ReadHeaderLine3 ==
    /\ pc = "read_header_line_3"
    /\ LET arg == PyIndex(data_lines, Line3Column)
           r == IF arg.err # "none" THEN arg
                ELSE read_header_line_3(model, Val(message_number), arg.val)
       IN  IF r.err # "none"
           THEN Fail(r.err) /\ UNCHANGED header
           ELSE /\ header' = Append(header, r.val)
                /\ pc' = IF HasCl(model) THEN "read_header_line_4" ELSE "handle_metadata"
                /\ UNCHANGED err
    /\ UNCHANGED betaVars
    /\ UNCHANGED <<file, ceilo, model, message_number, time, metadata, backscatter,
                   range, data_lines, lines, profiles, detected, entry>>

ReadHeaderLine4 ==
    /\ pc = "read_header_line_4"
    /\ LET arg == PyIndex(data_lines, Line4Column)
           r == IF arg.err # "none" THEN arg ELSE read_header_line_4(arg.val)
       IN  IF r.err # "none"
           THEN Fail(r.err) /\ UNCHANGED header
           ELSE header' = Append(header, Some(r.val)) /\ pc' = "handle_metadata"
                /\ UNCHANGED err
    /\ UNCHANGED betaVars
    /\ UNCHANGED <<file, ceilo, model, message_number, time, metadata, backscatter,
                   range, data_lines, lines, profiles, detected, entry>>

HandleMetadata ==
    /\ pc = "handle_metadata"
    /\ LET r == handle_metadata(header)
       IN  IF r.err # "none"
           THEN Fail(r.err) /\ UNCHANGED metadata
           ELSE /\ metadata' = Some(r.val)
                /\ pc' = After("handle_metadata",
                               IF HasCl(model) THEN "read_backscatter"
                               ELSE "parse_hex_profiles")
                /\ UNCHANGED err
    /\ UNCHANGED betaVars
    /\ UNCHANGED <<file, ceilo, model, message_number, time, backscatter, range,
                   data_lines, header, lines, profiles, detected, entry>>

ParseHexProfiles ==
    /\ pc = "parse_hex_profiles"
    /\ LET r == parse_hex_profiles(ListSlice(data_lines, CtHexFirstColumn, CtHexEndColumn))
       IN  IF r.err # "none"
           THEN Fail(r.err) /\ UNCHANGED lines
           ELSE lines' = r.val /\ pc' = "read_backscatter" /\ UNCHANGED err
    /\ UNCHANGED betaVars
    /\ UNCHANGED <<file, ceilo, model, message_number, time, metadata, backscatter,
                   range, data_lines, header, profiles, detected, entry>>

\* _read_backscatter up to the end of its decode loop; ClCeilo passes
\* data_lines[-2], Ct25k the profiles of _parse_hex_profiles
DecodeProfiles ==
    /\ pc = "read_backscatter"
    /\ LET arg == IF entry = "ceilo2nc" /\ HasCl(model) THEN PyIndex(data_lines, ClDataColumn)
                  ELSE Ok(lines)
       IN  IF arg.err # "none" \/ Len(arg.val) = 0
           THEN Fail("IndexError") /\ UNCHANGED <<profiles, lines>>
           ELSE /\ lines' = arg.val
                /\ profiles' = Some(raw_profiles(model, arg.val))
                /\ pc' = "correct_and_scale"
                /\ UNCHANGED err
    /\ UNCHANGED betaVars
    /\ UNCHANGED <<file, ceilo, model, message_number, time, metadata, backscatter,
                   range, data_lines, header, detected, entry>>

\* the rest of _read_backscatter, and the assignment of its result
CorrectAndScale ==
    /\ pc = "correct_and_scale"
    /\ backscatter' = Some(correct_and_scale(model, Val(profiles)))
    /\ pc' = After("read_backscatter", "calc_range")
    /\ UNCHANGED betaVars
    /\ UNCHANGED <<file, err, ceilo, model, message_number, time, metadata, range,
                   data_lines, header, lines, profiles, detected, entry>>

CalcRange ==
    /\ pc = "calc_range"
    /\ LET r == calc_range(model, Val(metadata))
       IN  IF r.err # "none"
           THEN Fail(r.err) /\ UNCHANGED range
           ELSE /\ range' = Some(r.val)
                /\ pc' = IF model = "ct25k" THEN "range_correct_upper_part" ELSE "done"
                /\ UNCHANGED err
    /\ UNCHANGED betaVars
    /\ UNCHANGED <<file, ceilo, model, message_number, time, metadata, backscatter,
                   data_lines, header, lines, profiles, detected, entry>>

RangeCorrectUpperPart ==
    /\ pc = "range_correct_upper_part"
    /\ LET r == range_correct_upper_part(Val(backscatter), Val(range))
       IN  IF r.err # "none"
           THEN Fail(r.err) /\ UNCHANGED backscatter
           ELSE backscatter' = Some(r.val) /\ pc' = "done" /\ UNCHANGED err
    /\ UNCHANGED betaVars
    /\ UNCHANGED <<file, ceilo, model, message_number, time, metadata, range,
                   data_lines, header, lines, profiles, detected, entry>>

Next ==
    \/ FindCeiloModel
    \/ Initialize
    \/ FetchDataLines
    \/ CalcTime
    \/ ReadHeaderLine1
    \/ GetMessageNumber
    \/ ReadHeaderLine2
    \/ ReadHeaderLine3
    \/ ReadHeaderLine4
    \/ HandleMetadata
    \/ ParseHexProfiles
    \/ DecodeProfiles
    \/ CorrectAndScale
    \/ CalcRange
    \/ RangeCorrectUpperPart

Spec == Init /\ [][Next]_vars

-----------------------------------------------------------------------------
(* _handle_metadata called alone on a list of header dictionaries *)

\* field values as the header decoders produce them: integers, a signed one,
\* a decimal fraction, an empty slice
MetaTokens == {<<"1", "2">>, <<"-", "3">>, <<"1", ".", "5">>, <<>>}

\* one fixed integer field and one other field
MetaKeys == {"tilt_angle", "laser_energy"}

InitMeta ==
    /\ \E n \in 1..MaxMetaLen :
         \E d \in [MetaKeys -> [1..n -> MetaTokens]] :
            header \in {<<Some(d)>>, <<Some(d), None>>}
    /\ pc = "handle_metadata"
    /\ entry = "handle_metadata"
    /\ NoBeta
    /\ file = <<>>
    /\ ceilo = "None"
    /\ model = "None"
    /\ message_number = None
    /\ time = None
    /\ metadata = None
    /\ backscatter = None
    /\ range = None
    /\ data_lines = <<>>
    /\ lines = <<>>
    /\ profiles = None
    /\ detected = "unset"
    /\ err = "none"

NextMeta == HandleMetadata

SpecMeta == InitMeta /\ [][NextMeta]_vars

-----------------------------------------------------------------------------
(* _read_backscatter called alone on a list of profile lines *)

\* chunks of a profile line: overflow bit clear, overflow bit set, not hexadecimal
Chunks(m) ==
    IF HasCl(m)
    THEN {<<"0", "0", "0", "0", "1">>, <<"8", "0", "0", "0", "0">>,
          <<"0", "0", "0", "0", "G">>}
    ELSE {<<"0", "0", "0", "1">>, <<"8", "0", "0", "0">>, <<"0", "0", "0", "G">>}

\* lines of 0..MaxGates chunks
ProfileLines(m) ==
    UNION {{Join(cs) : cs \in [1..g -> Chunks(m)]} : g \in 0..MaxGates}

\* one-chunk lines over more values: the extremes of both halves of the range,
\* a sign, padding, a line end
WideChunks(m) ==
    LET body == {[i \in 1..(hex_conversion_params(m)[1] - 1) |->
                    IF i = 1 THEN a ELSE b] : a \in {"0", "7", "8", "F"}, b \in {"0", "F"}}
    IN  {x \o <<c>> : x \in body, c \in {"0", "F", NL}}
        \cup {<<s>> \o x : x \in body, s \in {"-", " ", "7", "8"}}

Sessions == {"Cl51", "Cl31", "Ct25k"}

InitBack ==
    /\ ceilo \in Sessions
    /\ model = ModelOf(ceilo)
    /\ \/ \E n \in 1..MaxProfiles : lines \in [1..n -> ProfileLines(model)]
       \/ \E c \in WideChunks(model) : lines = <<c>>
    /\ pc = "read_backscatter"
    /\ entry = "read_backscatter"
    /\ NoBeta
    /\ file = <<>>
    /\ message_number = None
    /\ time = None
    /\ metadata = None
    /\ backscatter = None
    /\ range = None
    /\ data_lines = <<>>
    /\ header = <<>>
    /\ profiles = None
    /\ detected = "unset"
    /\ err = "none"

NextBack ==
    \/ DecodeProfiles
    \/ CorrectAndScale

SpecBack == InitBack /\ [][NextBack]_vars

-----------------------------------------------------------------------------
(* _read_header_line_1 called alone on a list of lines *)

\* every prefix of a string, the empty one and the string itself included
Prefixes(str) == {SubSeq(str, 1, n) : n \in 0..Len(str)}

\* header lines 1 of both layouts, whole and cut short
HeaderLines1 == Prefixes(Line1(<<"C", "L", "0", "2">>, "2"))
                \cup Prefixes(Line1(<<"C", "T", "0", "2">>, "5"))

InitHead ==
    /\ ceilo \in Sessions
    /\ model = ModelOf(ceilo)
    /\ \E n \in 0..MaxHeadLines :
         \E ls \in [1..n -> HeaderLines1] : data_lines = <<<<>>, ls>>
    /\ pc = "read_header_line_1"
    /\ entry = "read_header_line_1"
    /\ NoBeta
    /\ file = <<>>
    /\ message_number = None
    /\ time = None
    /\ metadata = None
    /\ backscatter = None
    /\ range = None
    /\ header = <<>>
    /\ lines = <<>>
    /\ profiles = None
    /\ detected = "unset"
    /\ err = "none"

NextHead == ReadHeaderLine1

SpecHead == InitHead /\ [][NextHead]_vars

-----------------------------------------------------------------------------
(* _fetch_data_lines called alone on the lines of a file *)

\* the two blank lines and two other lines
SplitLines == {<<NL>>, <<CR, NL>>, <<"a", NL>>, <<" ", NL>>}

InitSplit ==
    /\ \E n \in 0..MaxLines : file \in [1..n -> SplitLines]
    /\ pc = "fetch_data_lines"
    /\ entry = "fetch_data_lines"
    /\ Unset

NextSplit == FetchDataLines

SpecSplit == InitSplit /\ [][NextSplit]_vars


-----------------------------------------------------------------------------
(* float64 arithmetic of the array operations                               *)
(*                                                                         *)
(* A float is (-1)^neg * m * 2^e with m a natural number of exactly 53     *)
(* bits, or zero (m = 0).  Multiplication and division round to nearest,   *)
(* ties to even, as IEEE 754 does; no number of the model is near the      *)
(* overflow or underflow threshold.  Natural numbers of any size are       *)
(* little-endian sequences of digits to the base 2^15 without a leading    *)
(* zero digit, so that every intermediate product stays below 2^31.        *)
(***************************************************************************)

BigBase == 8 * 4096

RECURSIVE BN(_)
BN(n) == IF n = 0 THEN <<>> ELSE <<n % BigBase>> \o BN(n \div BigBase)

RECURSIVE BTrim(_)
BTrim(a) ==
    IF a = <<>> THEN <<>>
    ELSE IF a[Len(a)] = 0 THEN BTrim(SubSeq(a, 1, Len(a) - 1)) ELSE a

RECURSIVE BAddC(_, _, _)
BAddC(a, b, c) ==
    IF a = <<>> /\ b = <<>> THEN (IF c = 0 THEN <<>> ELSE <<c>>)
    ELSE LET x == (IF a = <<>> THEN 0 ELSE Head(a)) + (IF b = <<>> THEN 0 ELSE Head(b)) + c
         IN  <<x % BigBase>> \o BAddC(IF a = <<>> THEN <<>> ELSE Tail(a),
                                      IF b = <<>> THEN <<>> ELSE Tail(b),
                                      x \div BigBase)

BAdd(a, b) == BAddC(a, b, 0)

\* a - b - c for a >= b + c, digit by digit with borrow c
RECURSIVE BSubB(_, _, _)
BSubB(a, b, c) ==
    IF a = <<>> THEN <<>>
    ELSE LET x == Head(a) - (IF b = <<>> THEN 0 ELSE Head(b)) - c
         IN  <<(x + BigBase) % BigBase>>
             \o BSubB(Tail(a), IF b = <<>> THEN <<>> ELSE Tail(b), IF x < 0 THEN 1 ELSE 0)

BSub(a, b) == BTrim(BSubB(a, b, 0))

RECURSIVE BCmpFrom(_, _, _)
BCmpFrom(a, b, i) ==
    IF i = 0 THEN 0
    ELSE IF a[i] > b[i] THEN 1
    ELSE IF a[i] < b[i] THEN 0 - 1
    ELSE BCmpFrom(a, b, i - 1)

\* 1, 0, -1 as a > b, a = b, a < b
BCmp(a, b) ==
    IF Len(a) > Len(b) THEN 1
    ELSE IF Len(a) < Len(b) THEN 0 - 1
    ELSE BCmpFrom(a, b, Len(a))

BLess(a, b) == BCmp(a, b) < 0

\* a * d + c for a digit d
RECURSIVE BMulD(_, _, _)
BMulD(a, d, c) ==
    IF a = <<>> THEN (IF c = 0 THEN <<>> ELSE <<c>>)
    ELSE LET x == Head(a) * d + c
         IN  <<x % BigBase>> \o BMulD(Tail(a), d, x \div BigBase)

RECURSIVE BMulR(_, _)
BMulR(a, b) ==
    IF b = <<>> THEN <<>>
    ELSE BAdd(BMulD(a, Head(b), 0), <<0>> \o BMulR(a, Tail(b)))

BMul(a, b) == BTrim(BMulR(a, b))

\* a * 2^k
BShl(a, k) ==
    IF a = <<>> THEN <<>>
    ELSE [i \in 1..(k \div 15) |-> 0] \o BMulD(a, 2 ^ (k % 15), 0)

\* floor(a / 2^k)
BShr(a, k) ==
    LET q == k \div 15
        r == k % 15
        t == IF q >= Len(a) THEN <<>> ELSE SubSeq(a, q + 1, Len(a))
    IN  BTrim([i \in 1..Len(t) |->
                  (t[i] \div (2 ^ r))
                  + (IF i < Len(t) THEN (t[i + 1] % (2 ^ r)) * (2 ^ (15 - r)) ELSE 0)])

\* bit i of a, bit 0 the lowest
BBit(a, i) ==
    IF i \div 15 + 1 > Len(a) THEN 0 ELSE (a[i \div 15 + 1] \div (2 ^ (i % 15))) % 2

RECURSIVE DigitBits(_)
DigitBits(d) == IF d = 0 THEN 0 ELSE 1 + DigitBits(d \div 2)

\* number of bits of a
BBitLen(a) == IF a = <<>> THEN 0 ELSE 15 * (Len(a) - 1) + DigitBits(a[Len(a)])

\* one step of the long division of a by b: bit i of a is brought down
BDivBit(a, b, i, st) ==
    LET r2 == BMulD(st.r, 2, BBit(a, i))
    IN  IF BCmp(r2, b) >= 0
        THEN [q |-> BMulD(st.q, 2, 1), r |-> BSub(r2, b)]
        ELSE [q |-> BMulD(st.q, 2, 0), r |-> r2]

\* the steps for bits hi down to lo, the upper half of them first
RECURSIVE BDivBits(_, _, _, _, _)
BDivBits(a, b, hi, lo, st) ==
    IF hi < lo THEN st
    ELSE IF hi = lo THEN BDivBit(a, b, hi, st)
    ELSE LET mid == (hi + lo) \div 2
             upper == BDivBits(a, b, hi, mid + 1, st)
         IN  IF Len(upper.q) + Len(upper.r) >= 0
             THEN BDivBits(a, b, mid, lo, upper)
             ELSE st

\* quotient and remainder of a by b > 0; the leading bits of a that make a
\* number below b are the first remainder
BDivMod(a, b) ==
    LET skip == IF BBitLen(a) < BBitLen(b) THEN BBitLen(a) ELSE BBitLen(b) - 1
        rest == BBitLen(a) - skip
    IN  BDivBits(a, b, rest - 1, 0, [q |-> <<>>, r |-> BShr(a, rest)])

FZero == [neg |-> FALSE, m |-> <<>>, e |-> 0]

\* the float nearest to (-1)^neg * (n + f) * 2^e, where 0 <= f < 1 and sticky
\* tells whether f > 0 (f > 0 only with n of more than 53 bits)
FRound(neg, n, e, sticky) ==
    IF n = <<>> THEN FZero
    ELSE LET len == BBitLen(n)
         IN  IF len <= 53
             THEN [neg |-> neg, m |-> BShl(n, 53 - len), e |-> e - (53 - len)]
             ELSE LET s == len - 53
                      q == BShr(n, s)
                      half == BBit(n, s - 1) = 1
                      low == sticky \/ BShl(BShr(n, s - 1), s - 1) # n
                      up == half /\ (low \/ BBit(q, 0) = 1)
                      q1 == IF up THEN BAdd(q, <<1>>) ELSE q
                  IN  IF BBitLen(q1) > 53
                      THEN [neg |-> neg, m |-> BShr(q1, 1), e |-> e + s + 1]
                      ELSE [neg |-> neg, m |-> q1, e |-> e + s]

\* float(i) of an integer
FInt(i) == FRound(i < 0, BN(IF i < 0 THEN 0 - i ELSE i), 0, FALSE)

\* a * b
FMul(a, b) ==
    IF a.m = <<>> \/ b.m = <<>> THEN FZero
    ELSE FRound(a.neg # b.neg, BMul(a.m, b.m), a.e + b.e, FALSE)

\* a / b for b # 0
FDiv(a, b) ==
    IF a.m = <<>> THEN FZero
    ELSE LET d == BDivMod(BShl(a.m, 55), b.m)
         IN  FRound(a.neg # b.neg, d.q, a.e - b.e - 55, d.r # <<>>)

\* m1 * 2^e1 < m2 * 2^e2
ExLess(m1, e1, m2, e2) ==
    IF e1 >= e2 THEN BLess(BShl(m1, e1 - e2), m2) ELSE BLess(m1, BShl(m2, e2 - e1))

\* a < b
FLess(a, b) ==
    IF a.neg /\ ~b.neg THEN TRUE
    ELSE IF ~a.neg /\ b.neg THEN FALSE
    ELSE IF a.neg THEN ExLess(b.m, b.e, a.m, a.e)
    ELSE ExLess(a.m, a.e, b.m, b.e)

-----------------------------------------------------------------------------
(* calc_beta: range squared, saturated profiles, _screening_wrapper         *)
(*                                                                         *)
(* The elementwise operations (/, *, **2, <) are those of float64, bit for  *)
(* bit.  The statistics of a window (np.var, np.std) and the comparisons    *)
(* with them are taken over the exact values of the floats of the window:   *)
(* the rounding inside numpy's sums is not modelled, so that a comparison   *)
(* may differ from numpy's only where both sides agree to about 15 digits.  *)
(***************************************************************************)

RECURSIVE BPow10(_)
BPow10(k) == IF k = 0 THEN <<1>> ELSE BMulD(BPow10(k - 1), 10, 0)

\* the float of the decimal literal n * 10^-k (n and 10^k below 2^53)
FDec(n, k) == FDiv(FInt(n), FRound(FALSE, BPow10(k), 0, FALSE))

M2KM == FDec(1, 3)

\* noise_params of the CL sessions: (n_gates, var_lim, saturation_noise, noise_min)
ClNoiseParams ==
    [n_gates |-> 100, var_lim |-> FDec(1, 12), saturation_noise |-> FDec(3, 6),
     noise_min |-> <<FDec(11, 9), FDec(29, 9)>>]

\* noise_params of the CT25k session
CtNoiseParams ==
    [n_gates |-> 40, var_lim |-> FDec(2, 14), saturation_noise |-> FDec(3, 7),
     noise_min |-> <<FDec(3, 10), FDec(15, 10)>>]

noise_params(class) == IF class = "Ct25k" THEN CtNoiseParams ELSE ClNoiseParams

\* mutant: the range in km, not squared
range_factor_linear(r) == FMul(FInt(r), M2KM)

\* (r * M2KM)**2
range_factor(r) == LET x == FMul(FInt(r), M2KM) IN FMul(x, x)

\* the float64 that a backscatter cell holds
as_float(c) ==
    LET b == FDiv(FInt(c.num), FInt(c.den))
    IN  IF c.r = KM2M THEN b ELSE FMul(b, range_factor(c.r))

as_floats(b) == [p \in 1..Len(b) |-> [g \in 1..Len(b[p]) |-> as_float(b[p][g])]]

get_range_squared(rng) == [g \in 1..Len(rng) |-> range_factor(rng[g])]

\* mutant: the field is screened in range-corrected units
uncorrect_range_none(b, rs) == b

uncorrect_range(b, rs) ==
    [p \in 1..Len(b) |-> [g \in 1..Len(b[p]) |-> FDiv(b[p][g], rs[g])]]

correct_range(b, rs) ==
    [p \in 1..Len(b) |-> [g \in 1..Len(b[p]) |-> FMul(b[p][g], rs[g])]]

\* row[-n:]
LastN(row, n) == IF Len(row) <= n THEN row ELSE SubSeq(row, Len(row) - n + 1, Len(row))

\* the sum of a sequence of natural numbers, by halves
RECURSIVE BSum(_)
BSum(s) ==
    IF Len(s) = 0 THEN <<>>
    ELSE IF Len(s) = 1 THEN s[1]
    ELSE BAdd(BSum(SubSeq(s, 1, Len(s) \div 2)),
              BSum(SubSeq(s, Len(s) \div 2 + 1, Len(s))))

\* np.var of the floats xs, exactly: the variance is num * 2^e / n^2
Variance(xs) ==
    LET n == Len(xs)
        nz == {i \in 1..n : xs[i].m # <<>>}
    IN  IF nz = {} THEN [num |-> <<>>, e |-> 0, n |-> n]
        ELSE LET E == CHOOSE e \in {xs[i].e : i \in nz} : \A i \in nz : e <= xs[i].e
                 X == [i \in 1..n |-> IF i \in nz THEN BShl(xs[i].m, xs[i].e - E) ELSE <<>>]
                 pos == BSum([i \in 1..n |-> IF xs[i].neg THEN <<>> ELSE X[i]])
                 neg == BSum([i \in 1..n |-> IF xs[i].neg THEN X[i] ELSE <<>>])
                 s == IF BLess(pos, neg) THEN BSub(neg, pos) ELSE BSub(pos, neg)
                 sq == BSum([i \in 1..n |-> BMul(X[i], X[i])])
             IN  [num |-> BSub(BMulD(sq, n, 0), BMul(s, s)), e |-> 2 * E, n |-> n]

\* v < f * f for a variance v and a float f > 0: the standard deviation is below f
StdLess(v, f) == ExLess(v.num, v.e, BMul(BMul(f.m, f.m), BN(v.n * v.n)), 2 * f.e)

\* v < f for a variance v and a float f > 0
VarLess(v, f) == ExLess(v.num, v.e, BMul(f.m, BN(v.n * v.n)), f.e)

\* mutant: every flag is taken from the variance of the first profile
find_saturated_profiles_first(params, b) ==
    [ind \in 1..Len(b) |->
        VarLess(Variance(LastN(b[1], params.n_gates)), params.var_lim)]

\* params stands for the session: what the function reads of it is noise_params
find_saturated_profiles(params, b) ==
    [ind \in 1..Len(b) |->
        VarLess(Variance(LastN(b[ind], params.n_gates)), params.var_lim)]

\* noise_min[0] if smooth else noise_min[1]
noise_min(params, smoothed) ==
    IF smoothed THEN params.noise_min[1] ELSE params.noise_min[2]

\* noise_at_top of one profile: the variance of the window, and the floor
\* where the standard deviation is below the floor
noise_estimate(params, smoothed, row) ==
    LET v == Variance(LastN(row, params.n_gates))
        f == noise_min(params, smoothed)
    IN  [var |-> v, floor |-> IF StdLess(v, f) THEN Some(f) ELSE None]

SnrLim == 5

\* mutant: abs(x) / noise < snr_lim
below_snr_magnitude(x, noise) ==
    IF noise.floor # None
    THEN FLess(FDiv([x EXCEPT !.neg = FALSE], Val(noise.floor)), FInt(SnrLim))
    ELSE \/ x.m = <<>>
         \/ ExLess(BMul(BMul(x.m, x.m), BN(noise.var.n * noise.var.n)), 2 * x.e,
                   BMulD(noise.var.num, SnrLim * SnrLim, 0), noise.var.e)

\* x / noise < snr_lim
below_snr(x, noise) ==
    IF noise.floor # None THEN FLess(FDiv(x, Val(noise.floor)), FInt(SnrLim))
    ELSE \/ x.m = <<>>
         \/ x.neg
         \/ ExLess(BMul(BMul(x.m, x.m), BN(noise.var.n * noise.var.n)), 2 * x.e,
                   BMulD(noise.var.num, SnrLim * SnrLim, 0), noise.var.e)

\* np.argmax: the first index of the largest value
argmax(row) ==
    CHOOSE i \in 1..Len(row) :
        /\ \A j \in 1..Len(row) : ~FLess(row[i], row[j])
        /\ \A j \in 1..(i - 1) : FLess(row[j], row[i])

\* mutant: every bin below the saturation noise, before the peak too
saturation_step_whole(params, row, saturated) ==
    IF ~saturated THEN row
    ELSE [g \in 1..Len(row) |->
             IF FLess(row[g], params.saturation_noise) THEN FZero ELSE row[g]]

\* the loop over the saturated profiles, for one profile
saturation_step(params, row, saturated) ==
    IF ~saturated THEN row
    ELSE LET peak_ind == argmax(row)
         IN  [g \in 1..Len(row) |->
                 IF g >= peak_ind /\ FLess(row[g], params.saturation_noise)
                 THEN FZero ELSE row[g]]

\* beta[snr.T < snr_lim] = 0.0, for one profile
snr_step(row, noise) ==
    [g \in 1..Len(row) |-> IF below_snr(row[g], noise) THEN FZero ELSE row[g]]

\* _screen_by_snr: the screened field and noise_at_top
screen_by_snr(beta_uncorrected, params, saturation, smoothed) ==
    LET noise == [ind \in 1..Len(beta_uncorrected) |->
                     noise_estimate(params, smoothed, beta_uncorrected[ind])]
    IN  [noise_at_top |-> noise,
         beta |-> [ind \in 1..Len(beta_uncorrected) |->
                      snr_step(saturation_step(params, beta_uncorrected[ind],
                                               saturation[ind]),
                               noise[ind])]]

\* cloud_limit of _estimate_clouds_from_beta
CloudLimit == FDec(1, 6)

\* the positions of a field of n profiles and gates gates, row by row
Positions(n, gates) ==
    [k \in 1..(n * gates) |-> <<((k - 1) \div gates) + 1, ((k - 1) % gates) + 1>>]

\* mutant: beta >= cloud_limit
estimate_clouds_from_beta_ge(b, limit) ==
    LET ind == SelectSeq(Positions(Len(b), Len(b[1])),
                         LAMBDA pg : ~FLess(b[pg[1]][pg[2]], limit))
    IN  [cloud_ind |-> ind,
         cloud_values |-> [k \in 1..Len(ind) |-> b[ind[k][1]][ind[k][2]]]]

\* _estimate_clouds_from_beta: np.where(beta > cloud_limit), in the order of
\* np.where, and the values of beta there
estimate_clouds_from_beta(b, limit) ==
    LET ind == SelectSeq(Positions(Len(b), Len(b[1])),
                         LAMBDA pg : FLess(limit, b[pg[1]][pg[2]]))
    IN  [cloud_ind |-> ind,
         cloud_values |-> [k \in 1..Len(ind) |-> b[ind[k][1]][ind[k][2]]]]

\* a + b for a >= 0 and b >= 0
FAddPos(a, b) ==
    IF a.m = <<>> THEN b
    ELSE IF b.m = <<>> THEN a
    ELSE LET E == Min(a.e, b.e)
         IN  FRound(FALSE, BAdd(BShl(a.m, a.e - E), BShl(b.m, b.e - E)), E, FALSE)

\* a / 2
FHalf(a) == IF a.m = <<>> THEN FZero ELSE [a EXCEPT !.e = @ - 1]

\* scipy.ndimage's gaussian_filter is not part of the repository.  Its result
\* is a new field of the shape of its input; the model takes it from three
\* smoothings of a field of values >= 0: none (the limit of a narrow kernel),
\* the mean of each bin and the bin below it in range, and the mean of each
\* bin and the bin before it in time, the first bin being reflected
Kernels == {"narrow", "range", "time"}

gaussian_filter(field, k) ==
    [p \in 1..Len(field) |->
        [g \in 1..Len(field[p]) |->
            IF k = "range"
            THEN FHalf(FAddPos(field[p][g], field[p][Max(g - 1, 1)]))
            ELSE IF k = "time"
            THEN FHalf(FAddPos(field[p][g], field[Max(p - 1, 1)][g]))
            ELSE field[p][g]]]

\* beta_smooth[cloud_ind] = cloud_values
restore_clouds(field, ind, values) ==
    [p \in 1..Len(field) |->
        [g \in 1..Len(field[p]) |->
            IF \E k \in 1..Len(ind) : ind[k] = <<p, g>>
            THEN values[CHOOSE k \in 1..Len(ind) : ind[k] = <<p, g>>]
            ELSE field[p][g]]]

\* an array object that no name is bound to
NewArray(id) ==
    1 + Max(Max(Max(id.beta_in, id.beta), Max(id.beta_smooth, id.screened)), 1)

-----------------------------------------------------------------------------
(* calc_beta called on a decoded session, statement by statement up to the  *)
(* first return of _screening_wrapper                                       *)

\* most gates of a generated CL session
MaxBetaGates == 3
\* most profiles of a generated CL session
MaxBetaProfiles == 2

\* range_resolution of the generated CL sessions
BetaResolutions == {10}

\* integer profiles after the overflow correction: weak signal, a negative
\* value, strong signal, no signal
BaseRows ==
    {<<1, 5, 10, 20>>, <<1, 6, 10, 30>>, <<0 - 1, 10, 50, 60>>,
     <<100, 300, 500, 900>>, <<0, 0, 0, 0>>}

ClSessionsOf(gates, n, resolution) ==
    {[class |-> "Cl31",
      backscatter |-> [p \in 1..n |->
                          [g \in 1..gates |-> Cell(rows[p][g], ClScaleFactor)]],
      range |-> [i \in 1..gates |-> i * resolution]] :
        rows \in [1..n -> {SubSeq(r, 1, gates) : r \in BaseRows}]}

ClSessions ==
    UNION {ClSessionsOf(gates, n, resolution) :
              gates \in 1..MaxBetaGates, n \in 1..MaxBetaProfiles,
              resolution \in BetaResolutions}

\* ct25k profile with a peak at gate 5, weak and strong signal above 2400 m
\* and nothing in the last 40 gates
CtRowQuiet ==
    [g \in 1..CtNGates |->
        IF g = 5 THEN 3000
        ELSE IF g \in 81..100 THEN 2
        ELSE IF g \in 101..120 THEN 50
        ELSE 0]

\* the same with a last gate that alternates between 0 and 1
CtRowNoisy ==
    [g \in 1..CtNGates |-> IF g > 216 THEN g % 2 ELSE CtRowQuiet[g]]

\* ct25k profile with a different signal at every gate above 2400 m, strong
\* below the last 40 gates and weak in them
CtRowRamp ==
    [g \in 1..CtNGates |->
        IF g <= 80 THEN CtRowQuiet[g]
        ELSE IF g <= 216 THEN 1000 + 13 * ((g * 37) % 101)
        ELSE 1 + ((g * 37) % 101)]

CtSessions ==
    {[class |-> "Ct25k",
      backscatter |-> range_correct_upper_part(
                          [p \in 1..Len(rows) |->
                              [g \in 1..CtNGates |-> Cell(rows[p][g], CtScaleFactor)]],
                          calc_range("ct25k", <<>>).val).val,
      range |-> calc_range("ct25k", <<>>).val] :
        rows \in {<<CtRowQuiet>>, <<CtRowNoisy>>, <<CtRowRamp>>,
                  <<CtRowQuiet, CtRowNoisy>>}}

\* the session fields that calc_beta does not read are left unset
DecodedSession(s) ==
    /\ ceilo = s.class
    /\ model = ModelOf(s.class)
    /\ backscatter = Some(s.backscatter)
    /\ range = Some(s.range)
    /\ file = <<>>
    /\ message_number = None
    /\ time = None
    /\ metadata = None
    /\ data_lines = <<>>
    /\ header = <<>>
    /\ lines = <<>>
    /\ profiles = None
    /\ detected = "unset"
    /\ err = "none"

InitBeta ==
    /\ \E s \in ClSessions \cup CtSessions : DecodedSession(s)
    /\ pc = "get_range_squared"
    /\ entry = "calc_beta"
    /\ NoBeta

GetRangeSquared ==
    /\ pc = "get_range_squared"
    /\ range_squared' = Some(get_range_squared(Val(range)))
    /\ pc' = "find_saturated_profiles"
    /\ UNCHANGED <<is_saturation, smooth, beta_in, noise_at_top, beta, beta_again, calls>>
    /\ UNCHANGED smoothVars
    /\ UNCHANGED <<file, err, ceilo, model, message_number, time, metadata, backscatter,
                   range, data_lines, header, lines, profiles, detected, entry>>

FindSaturatedProfiles ==
    /\ pc = "find_saturated_profiles"
    /\ is_saturation' = Some(find_saturated_profiles(noise_params(ceilo),
                                                  as_floats(Val(backscatter))))
    /\ pc' = "screening_wrapper"
    /\ UNCHANGED <<range_squared, smooth, beta_in, noise_at_top, beta, beta_again, calls>>
    /\ UNCHANGED smoothVars
    /\ UNCHANGED <<file, err, ceilo, model, message_number, time, metadata, backscatter,
                   range, data_lines, header, lines, profiles, detected, entry>>

\* beta = _screening_wrapper(ceilo.backscatter, False): the call; beta_in is
\* bound to the array of ceilo.backscatter
ScreeningWrapper ==
    /\ pc = "screening_wrapper"
    /\ beta_in' = Some(as_floats(Val(backscatter)))
    /\ ident' = [ident EXCEPT !.beta_in = 1]
    /\ smooth' = FALSE
    /\ pc' = "uncorrect_range"
    /\ UNCHANGED <<range_squared, is_saturation, noise_at_top, beta, beta_again, calls>>
    /\ UNCHANGED <<beta_smooth, cloud_ind, cloud_values, screened, kernel, returned>>
    /\ UNCHANGED <<file, err, ceilo, model, message_number, time, metadata, backscatter,
                   range, data_lines, header, lines, profiles, detected, entry>>

\* mutant: beta /= range_squared, which writes the array of the argument
UncorrectRangeInPlace ==
    /\ pc = "uncorrect_range"
    /\ LET r == Some(uncorrect_range(Val(beta_in), Val(range_squared)))
       IN  /\ beta_in' = r
           /\ backscatter' = IF ident.beta_in = 1 THEN r ELSE backscatter
           /\ beta' = IF ident.beta_in = ident.beta THEN r ELSE beta
           /\ beta_smooth' = IF ident.beta_in = ident.beta_smooth THEN r ELSE beta_smooth
    /\ pc' = "screen_by_snr"
    /\ UNCHANGED <<range_squared, is_saturation, smooth, noise_at_top, beta_again, calls>>
    /\ UNCHANGED <<cloud_ind, cloud_values, screened, ident, kernel, returned>>
    /\ UNCHANGED <<file, err, ceilo, model, message_number, time, metadata,
                   range, data_lines, header, lines, profiles, detected, entry>>

\* beta_in = _uncorrect_range(beta_in, range_squared): the quotient is a new array
UncorrectRange ==
    /\ pc = "uncorrect_range"
    /\ beta_in' = Some(uncorrect_range(Val(beta_in), Val(range_squared)))
    /\ ident' = [ident EXCEPT !.beta_in = NewArray(ident)]
    /\ pc' = "screen_by_snr"
    /\ UNCHANGED <<range_squared, is_saturation, smooth, noise_at_top, beta, beta_again,
                   calls>>
    /\ UNCHANGED <<beta_smooth, cloud_ind, cloud_values, screened, kernel, returned>>
    /\ UNCHANGED <<file, err, ceilo, model, message_number, time, metadata, backscatter,
                   range, data_lines, header, lines, profiles, detected, entry>>

\* beta_in = _screen_by_snr(beta_in, ...): the result is the copy that
\* _screen_by_snr made of its argument
ScreenBySnr ==
    /\ pc = "screen_by_snr"
    /\ LET r == screen_by_snr(Val(beta_in), noise_params(ceilo), Val(is_saturation), smooth)
       IN  /\ beta_in' = Some(r.beta)
           /\ noise_at_top' = Some(r.noise_at_top)
    /\ ident' = [ident EXCEPT !.beta_in = NewArray(ident)]
    /\ pc' = "correct_range"
    /\ UNCHANGED <<range_squared, is_saturation, smooth, beta, beta_again, calls>>
    /\ UNCHANGED <<beta_smooth, cloud_ind, cloud_values, screened, kernel, returned>>
    /\ UNCHANGED <<file, err, ceilo, model, message_number, time, metadata, backscatter,
                   range, data_lines, header, lines, profiles, detected, entry>>

\* return _correct_range(beta_in, range_squared): the product is a new array;
\* calc_beta keeps the first result in beta and the second in beta_smooth
CorrectRange ==
    /\ pc = "correct_range"
    /\ LET r == correct_range(Val(beta_in), Val(range_squared))
       IN  IF calls = 0
           THEN /\ beta' = Some(r)
                /\ ident' = [ident EXCEPT !.beta = NewArray(ident)]
                /\ UNCHANGED <<beta_again, beta_smooth>>
           ELSE IF entry = "calc_beta"
           THEN /\ beta_smooth' = Some(r)
                /\ ident' = [ident EXCEPT !.beta_smooth = NewArray(ident)]
                /\ UNCHANGED <<beta, beta_again>>
           ELSE /\ beta_again' = Some(r)
                /\ UNCHANGED <<beta, beta_smooth, ident>>
    /\ calls' = calls + 1
    /\ pc' = IF entry = "calc_beta" THEN (IF calls = 0 THEN "copy_beta" ELSE "return")
             ELSE IF calls = 0 THEN "screen_again" ELSE "done"
    /\ UNCHANGED <<range_squared, is_saturation, smooth, beta_in, noise_at_top>>
    /\ UNCHANGED <<cloud_ind, cloud_values, screened, kernel, returned>>
    /\ UNCHANGED <<file, err, ceilo, model, message_number, time, metadata, backscatter,
                   range, data_lines, header, lines, profiles, detected, entry>>

NextBeta ==
    \/ GetRangeSquared
    \/ FindSaturatedProfiles
    \/ ScreeningWrapper
    \/ UncorrectRange
    \/ ScreenBySnr
    \/ CorrectRange

SpecBeta == InitBeta /\ [][NextBeta]_vars

-----------------------------------------------------------------------------
(* calc_beta called on a decoded session, statement by statement to its     *)
(* return, and called again on the same session                             *)

\* most calls of calc_beta on one session
MaxCalcBetaCalls == 2

\* ct25k profile with a strong negative value, which the overflow correction
\* gives, below the peak, and a last gate that alternates between 0 and 1
CtRowNegative ==
    [g \in 1..CtNGates |-> IF g = 3 THEN 0 - 3000 ELSE CtRowNoisy[g]]

CtNegativeSession ==
    [class |-> "Ct25k",
     backscatter |-> range_correct_upper_part(
                         <<[g \in 1..CtNGates |-> Cell(CtRowNegative[g], CtScaleFactor)]>>,
                         calc_range("ct25k", <<>>).val).val,
     range |-> calc_range("ct25k", <<>>).val]

\* integer profiles of the CL sessions: weak signal, signal above the cloud
\* limit
CalcRows == {<<1, 5, 10, 20>>, <<100, 300, 500, 900>>}

CalcSessions ==
    {s \in ClSessions :
        \A p \in 1..Len(s.backscatter) : \E r \in CalcRows :
            \A g \in 1..Len(s.range) : s.backscatter[p][g].num = r[g]}

\* a decoded session with its time vector, one profile every 30 seconds
InitCalc ==
    /\ \E s \in CalcSessions \cup {CtNegativeSession} :
          /\ ceilo = s.class
          /\ model = ModelOf(s.class)
          /\ backscatter = Some(s.backscatter)
          /\ range = Some(s.range)
          /\ time = Some([p \in 1..Len(s.backscatter) |-> 30 * p])
    /\ metadata = Some(EmptyDict)
    /\ message_number = None
    /\ file = <<>>
    /\ data_lines = <<>>
    /\ header = <<>>
    /\ lines = <<>>
    /\ profiles = None
    /\ detected = "unset"
    /\ err = "none"
    /\ pc = "get_range_squared"
    /\ entry = "calc_beta"
    /\ NoBeta

\* beta_smooth = ma.copy(beta)
CopyBeta ==
    /\ pc = "copy_beta"
    /\ beta_smooth' = beta
    /\ ident' = [ident EXCEPT !.beta_smooth = NewArray(ident)]
    /\ pc' = "estimate_clouds"
    /\ UNCHANGED <<range_squared, is_saturation, smooth, beta_in, noise_at_top, beta,
                   beta_again, calls>>
    /\ UNCHANGED <<cloud_ind, cloud_values, screened, kernel, returned>>
    /\ UNCHANGED <<file, err, ceilo, model, message_number, time, metadata, backscatter,
                   range, data_lines, header, lines, profiles, detected, entry>>

\* cloud_ind, cloud_values = _estimate_clouds_from_beta(beta): the values are
\* a new array
EstimateClouds ==
    /\ pc = "estimate_clouds"
    /\ LET r == estimate_clouds_from_beta(Val(beta), CloudLimit)
       IN  /\ cloud_ind' = Some(r.cloud_ind)
           /\ cloud_values' = Some(r.cloud_values)
    /\ pc' = "gaussian_filter"
    /\ UNCHANGED <<range_squared, is_saturation, smooth, beta_in, noise_at_top, beta,
                   beta_again, calls>>
    /\ UNCHANGED <<beta_smooth, screened, ident, kernel, returned>>
    /\ UNCHANGED <<file, err, ceilo, model, message_number, time, metadata, backscatter,
                   range, data_lines, header, lines, profiles, detected, entry>>

\* sigma = _calc_sigma_units(ceilo) reads ceilo.time and ceilo.range;
\* beta_smooth = gaussian_filter(beta_smooth, sigma) is a new array.  The
\* library is a function: a later call on the session smooths as the first did
GaussianFilter ==
    /\ pc = "gaussian_filter"
    /\ \E k \in (IF returned = <<>> THEN Kernels ELSE {kernel}) :
          /\ kernel' = k
          /\ beta_smooth' = Some(gaussian_filter(Val(beta_smooth), k))
    /\ ident' = [ident EXCEPT !.beta_smooth = NewArray(ident)]
    /\ pc' = "restore_clouds"
    /\ UNCHANGED <<range_squared, is_saturation, smooth, beta_in, noise_at_top, beta,
                   beta_again, calls>>
    /\ UNCHANGED <<cloud_ind, cloud_values, screened, returned>>
    /\ UNCHANGED <<file, err, ceilo, model, message_number, time, metadata, backscatter,
                   range, data_lines, header, lines, profiles, detected, entry>>

\* beta_smooth[cloud_ind] = cloud_values writes the array of beta_smooth, and
\* with it every name that is bound to that array
RestoreClouds ==
    /\ pc = "restore_clouds"
    /\ LET r == Some(restore_clouds(Val(beta_smooth), Val(cloud_ind), Val(cloud_values)))
       IN  /\ beta_smooth' = r
           /\ beta' = IF ident.beta = ident.beta_smooth THEN r ELSE beta
           /\ beta_in' = IF ident.beta_in = ident.beta_smooth THEN r ELSE beta_in
           /\ backscatter' = IF ident.beta_smooth = 1 THEN r ELSE backscatter
    /\ pc' = "screening_wrapper_smooth"
    /\ UNCHANGED <<range_squared, is_saturation, smooth, noise_at_top, beta_again, calls>>
    /\ UNCHANGED <<cloud_ind, cloud_values, screened, ident, kernel, returned>>
    /\ UNCHANGED <<file, err, ceilo, model, message_number, time, metadata,
                   range, data_lines, header, lines, profiles, detected, entry>>

\* beta_smooth = _screening_wrapper(beta_smooth, True): the call; beta_in is
\* bound to the array of beta_smooth
ScreeningWrapperSmooth ==
    /\ pc = "screening_wrapper_smooth"
    /\ beta_in' = beta_smooth
    /\ ident' = [ident EXCEPT !.beta_in = ident.beta_smooth]
    /\ smooth' = TRUE
    /\ pc' = "uncorrect_range"
    /\ UNCHANGED <<range_squared, is_saturation, noise_at_top, beta, beta_again, calls>>
    /\ UNCHANGED <<beta_smooth, cloud_ind, cloud_values, screened, kernel, returned>>
    /\ UNCHANGED <<file, err, ceilo, model, message_number, time, metadata, backscatter,
                   range, data_lines, header, lines, profiles, detected, entry>>

\* return beta, beta_smooth
Return ==
    /\ pc = "return"
    /\ returned' = Append(returned, [beta |-> Val(beta), beta_smooth |-> Val(beta_smooth)])
    /\ pc' = "returned"
    /\ UNCHANGED <<range_squared, is_saturation, smooth, beta_in, noise_at_top, beta,
                   beta_again, calls>>
    /\ UNCHANGED <<beta_smooth, cloud_ind, cloud_values, screened, ident, kernel>>
    /\ UNCHANGED <<file, err, ceilo, model, message_number, time, metadata, backscatter,
                   range, data_lines, header, lines, profiles, detected, entry>>

\* calc_beta(ceilo) once more: the locals of the call that returned are gone
CallAgain ==
    /\ pc = "returned"
    /\ Len(returned) < MaxCalcBetaCalls
    /\ range_squared' = None
    /\ is_saturation' = None
    /\ smooth' = FALSE
    /\ beta_in' = None
    /\ noise_at_top' = None
    /\ beta' = None
    /\ calls' = 0
    /\ beta_smooth' = None
    /\ cloud_ind' = None
    /\ cloud_values' = None
    /\ ident' = NoArrays
    /\ pc' = "get_range_squared"
    /\ UNCHANGED <<beta_again, screened, kernel, returned>>
    /\ UNCHANGED <<file, err, ceilo, model, message_number, time, metadata, backscatter,
                   range, data_lines, header, lines, profiles, detected, entry>>

NextCalc ==
    \/ GetRangeSquared
    \/ FindSaturatedProfiles
    \/ ScreeningWrapper
    \/ UncorrectRange
    \/ ScreenBySnr
    \/ CorrectRange
    \/ CopyBeta
    \/ EstimateClouds
    \/ GaussianFilter
    \/ RestoreClouds
    \/ ScreeningWrapperSmooth
    \/ Return
    \/ CallAgain

SpecCalc == InitCalc /\ [][NextCalc]_vars

-----------------------------------------------------------------------------
(* _screening_wrapper called on the backscatter of a decoded session, raw   *)
(* or smoothed pass, and then once more on the field that it returned       *)

InitScreen ==
    /\ \E s \in ClSessions :
          /\ DecodedSession(s)
          /\ range_squared = Some(get_range_squared(s.range))
          /\ is_saturation = Some(find_saturated_profiles(noise_params(s.class),
                                                       as_floats(s.backscatter)))
          /\ beta_in = Some(as_floats(s.backscatter))
    /\ smooth \in BOOLEAN
    /\ noise_at_top = None
    /\ beta = None
    /\ beta_again = None
    /\ calls = 0
    /\ beta_smooth = None
    /\ cloud_ind = None
    /\ cloud_values = None
    /\ screened = None
    /\ ident = [NoArrays EXCEPT !.beta_in = 1]
    /\ kernel = "none"
    /\ returned = <<>>
    /\ pc = "uncorrect_range"
    /\ entry = "screening_wrapper"

\* the wrapper is called again, with the same smooth, on its first result
ScreenAgain ==
    /\ pc = "screen_again"
    /\ beta_in' = beta
    /\ ident' = [ident EXCEPT !.beta_in = ident.beta]
    /\ pc' = "uncorrect_range"
    /\ UNCHANGED <<range_squared, is_saturation, smooth, noise_at_top, beta, beta_again,
                   calls>>
    /\ UNCHANGED <<beta_smooth, cloud_ind, cloud_values, screened, kernel, returned>>
    /\ UNCHANGED <<file, err, ceilo, model, message_number, time, metadata, backscatter,
                   range, data_lines, header, lines, profiles, detected, entry>>

NextScreen ==
    \/ UncorrectRange
    \/ ScreenBySnr
    \/ CorrectRange
    \/ ScreenAgain

SpecScreen == InitScreen /\ [][NextScreen]_vars

-----------------------------------------------------------------------------
(* _screen_by_snr called alone on a range-uncorrected field, statement by   *)
(* statement; beta_in is its argument beta_uncorrected                      *)

\* range_resolution of the sessions whose field is the argument
SnrResolutions == {10, 1000}

\* integer profiles of those sessions: weak signal with the peak in the
\* second bin, a negative value, strong signal
SnrRows == {<<1, 6, 10, 30>>, <<0 - 1, 10, 50, 60>>, <<100, 300, 500, 900>>}

InitSnr ==
    /\ \E gates \in 1..MaxBetaGates, n \in 1..MaxBetaProfiles, resolution \in SnrResolutions :
          \E s \in ClSessionsOf(gates, n, resolution) :
              /\ \A p \in 1..n : \E r \in SnrRows :
                    \A g \in 1..gates : s.backscatter[p][g].num = r[g]
              /\ DecodedSession(s)
              /\ range_squared = Some(get_range_squared(s.range))
              /\ beta_in = Some(uncorrect_range(as_floats(s.backscatter),
                                                get_range_squared(s.range)))
              /\ \E flags \in [1..n -> BOOLEAN] : is_saturation = Some(flags)
    /\ smooth \in BOOLEAN
    /\ noise_at_top = None
    /\ beta = None
    /\ beta_again = None
    /\ calls = 0
    /\ beta_smooth = None
    /\ cloud_ind = None
    /\ cloud_values = None
    /\ screened = None
    /\ ident = [NoArrays EXCEPT !.beta_in = 2]
    /\ kernel = "none"
    /\ returned = <<>>
    /\ pc = "snr_copy"
    /\ entry = "screen_by_snr"

\* beta = ma.copy(beta_uncorrected)
SnrCopy ==
    /\ pc = "snr_copy"
    /\ screened' = beta_in
    /\ ident' = [ident EXCEPT !.screened = NewArray(ident)]
    /\ pc' = "snr_noise_at_top"
    /\ UNCHANGED <<range_squared, is_saturation, smooth, beta_in, noise_at_top, beta,
                   beta_again, calls>>
    /\ UNCHANGED <<beta_smooth, cloud_ind, cloud_values, kernel, returned>>
    /\ UNCHANGED <<file, err, ceilo, model, message_number, time, metadata, backscatter,
                   range, data_lines, header, lines, profiles, detected, entry>>

\* noise_at_top, floored at noise_min
SnrNoiseAtTop ==
    /\ pc = "snr_noise_at_top"
    /\ noise_at_top' = Some([ind \in 1..Len(Val(screened)) |->
                                noise_estimate(noise_params(ceilo), smooth,
                                               Val(screened)[ind])])
    /\ pc' = "snr_saturation"
    /\ UNCHANGED <<range_squared, is_saturation, smooth, beta_in, beta, beta_again, calls>>
    /\ UNCHANGED smoothVars
    /\ UNCHANGED <<file, err, ceilo, model, message_number, time, metadata, backscatter,
                   range, data_lines, header, lines, profiles, detected, entry>>

\* the loop over the saturated profiles writes the array of beta
SnrSaturationLoop ==
    /\ pc = "snr_saturation"
    /\ LET r == Some([ind \in 1..Len(Val(screened)) |->
                         saturation_step(noise_params(ceilo), Val(screened)[ind],
                                         Val(is_saturation)[ind])])
       IN  /\ screened' = r
           /\ beta_in' = IF ident.beta_in = ident.screened THEN r ELSE beta_in
    /\ pc' = "snr_zero"
    /\ UNCHANGED <<range_squared, is_saturation, smooth, noise_at_top, beta, beta_again,
                   calls>>
    /\ UNCHANGED <<beta_smooth, cloud_ind, cloud_values, ident, kernel, returned>>
    /\ UNCHANGED <<file, err, ceilo, model, message_number, time, metadata, backscatter,
                   range, data_lines, header, lines, profiles, detected, entry>>

\* beta[snr.T < snr_lim] = 0.0 writes the array of beta; return beta
SnrZero ==
    /\ pc = "snr_zero"
    /\ LET r == Some([ind \in 1..Len(Val(screened)) |->
                         snr_step(Val(screened)[ind], Val(noise_at_top)[ind])])
       IN  /\ screened' = r
           /\ beta_in' = IF ident.beta_in = ident.screened THEN r ELSE beta_in
    /\ pc' = "done"
    /\ UNCHANGED <<range_squared, is_saturation, smooth, noise_at_top, beta, beta_again,
                   calls>>
    /\ UNCHANGED <<beta_smooth, cloud_ind, cloud_values, ident, kernel, returned>>
    /\ UNCHANGED <<file, err, ceilo, model, message_number, time, metadata, backscatter,
                   range, data_lines, header, lines, profiles, detected, entry>>

NextSnr ==
    \/ SnrCopy
    \/ SnrNoiseAtTop
    \/ SnrSaturationLoop
    \/ SnrZero

SpecSnr == InitSnr /\ [][NextSnr]_vars

-----------------------------------------------------------------------------
(* Properties *)

CL01 == <<"C", "L", "0", "1">>
CL02 == <<"C", "L", "0", "2">>
CT02 == <<"C", "T", "0", "2">>

IsBlank(line) == line \in {<<NL>>, <<CR, NL>>}

\* the k-th line after the first blank line of f; '' when there is none
LineAfterBlank(f, k) ==
    IF \E i \in 1..Len(f) : IsBlank(f[i])
    THEN LET b == CHOOSE i \in 1..Len(f) :
                     IsBlank(f[i]) /\ \A j \in 1..(i - 1) : ~IsBlank(f[j])
         IN  IF b + k <= Len(f) THEN f[b + k] ELSE <<>>
    ELSE <<>>

\* characters [1:5] of a line that has them all
SigAt(line) == IF Len(line) >= 5 THEN <<line[2], line[3], line[4], line[5]>> ELSE <<>>

SigModel(sig) ==
    IF sig = CL01 THEN "cl51"
    ELSE IF sig = CL02 THEN "cl31"
    ELSE IF sig = CT02 THEN "ct25k"
    ELSE "None"

Created == entry = "ceilo2nc" /\ pc \notin {"find_ceilo_model", "initialize_ceilo"}

\* C1: a file whose signature (characters [1:5] of the header line 1 the
\* detector reads) is none of CL01, CL02, CT02, also a file without a blank
\* line, ends session creation in an unrecognized-model error and no session
\* object of any class exists.
C1_NoSilentDefault ==
    (Created /\ SigAt(LineAfterBlank(file, 2)) \notin {CL01, CL02, CT02})
        => (ceilo = "None" /\ err = "UnsupportedModelError")

\* C2 as stated: the detector's result is the mapping of characters [1:5] of
\* the line immediately following the first blank line.
C2_HintFromNextLine ==
    (entry = "ceilo2nc" /\ pc # "find_ceilo_model")
        => detected = SigModel(SigAt(LineAfterBlank(file, 1)))

\* C2 amended: the detector's result is the mapping CL01 -> cl51, CL02 -> cl31,
\* CT02 -> ct25k (anything else -> None) of characters [1:5] of the second line
\* after the first blank line (the line after the time stamp line).
C2_HintFromSecondLine ==
    (entry = "ceilo2nc" /\ pc # "find_ceilo_model")
        => detected = SigModel(SigAt(LineAfterBlank(file, 2)))

\* C2 witness: the detector has run on a file whose second line after the
\* first blank line carries CL01, and whose line right after it carries nothing known.
C2_Witness ==
    /\ entry = "ceilo2nc"
    /\ pc = "initialize_ceilo"
    /\ detected = "cl51"
    /\ SigAt(LineAfterBlank(file, 2)) = CL01
    /\ SigModel(SigAt(LineAfterBlank(file, 1))) = "None"

DecimalDigits == <<"0", "1", "2", "3", "4", "5", "6", "7", "8", "9">>
IsDecimalDigit(s) == Len(s) = 1 /\ \E n \in 1..10 : DecimalDigits[n] = s[1]
DecimalDigitOf(s) == (CHOOSE n \in 1..10 : DecimalDigits[n] = s[1]) - 1

\* C3: once header line 1 is decoded and _get_message_number has run: if the
\* message_number fields differ between messages the run has failed with the
\* assertion, with message_number, metadata, backscatter and range unset and
\* only header line 1 decoded; if they are all the same the assertion does
\* not fail and message_number is that field as an integer (a field that is
\* all the same but no integer fails in int() with ValueError, message_number unset).
C3_MessageNumber ==
    (entry = "ceilo2nc" /\ Len(header) >= 1 /\ pc # "get_message_number") =>
        LET f == Val(header[1])["message_number"]
        IN  IF \E i, j \in 1..Len(f) : f[i] # f[j]
            THEN /\ pc = "failed"
                 /\ err = "AssertionError"
                 /\ message_number = None
                 /\ metadata = None
                 /\ backscatter = None
                 /\ range = None
                 /\ profiles = None
                 /\ Len(header) = 1
            ELSE /\ err # "AssertionError"
                 /\ IsDecimalDigit(f[1]) => message_number = Some(DecimalDigitOf(f[1]))
                 /\ ~IsDecimalDigit(f[1]) =>
                        (pc = "failed" /\ err = "ValueError" /\ message_number = None
                         /\ metadata = None /\ backscatter = None /\ range = None)

\* C3 witness: a file of two messages with different message numbers has
\* been rejected by the assertion, after the time axis was set.
C3_Witness ==
    /\ pc = "failed"
    /\ err = "AssertionError"
    /\ Len(header) = 1
    /\ ~IsNone(time)
    /\ \E i, j \in 1..Len(Val(header[1])["message_number"]) :
          Val(header[1])["message_number"][i] # Val(header[1])["message_number"][j]

HeaderComplete ==
    /\ model # "None"
    /\ Len(header) = (IF model \in {"cl51", "cl31"} THEN 4 ELSE 3)

\* C4: when the header-line-3 dictionary is None, the metadata merger
\* completes without error and the merged metadata has exactly the fields of
\* the other header dictionaries.
C4_AbsentLine3Merges ==
    (entry = "ceilo2nc" /\ HeaderComplete /\ IsNone(header[3]) /\ pc # "handle_metadata")
        => /\ err = "none"
           /\ ~IsNone(metadata)
           /\ DOMAIN Val(metadata) =
                 UNION {DOMAIN Val(header[i]) : i \in (1..Len(header)) \ {3}}

\* C5: the result of _read_header_line_3 is a dictionary (of the family's
\* fields) if and only if message_number = 2 for cl31/cl51, and message_number
\* not in {1, 3, 6} for ct25k; in every other case it is None.
C5_Line3Presence ==
    (entry = "ceilo2nc" /\ Len(header) >= 3) =>
        LET msg == Val(message_number)
            present == IF model \in {"cl51", "cl31"} THEN msg = 2
                       ELSE msg # 1 /\ msg # 3 /\ msg # 6
        IN  /\ present <=> ~IsNone(header[3])
            /\ ~IsNone(header[3]) =>
                  DOMAIN Val(header[3]) =
                     (IF model \in {"cl51", "cl31"}
                      THEN {"cloud_detection_status", "cloud_amount_data"}
                      ELSE {"scale", "measurement_mode", "laser_energy",
                            "laser_temperature", "receiver_sensitivity",
                            "window_contamination", "tilt_angle", "background_light",
                            "measurement_parameters", "backscatter_sum"})

\* C5 witness: a ct25k session with message number 4 has decoded header
\* line 3 into a dictionary.
C5_Witness ==
    /\ entry = "ceilo2nc"
    /\ Len(header) >= 3
    /\ model = "ct25k"
    /\ message_number = Some(4)
    /\ ~IsNone(header[3])

\* C6 n_chars, mask and subtrahend as the claim gives them
ClaimMask(m) == IF m \in {"cl51", "cl31"} THEN 524288 ELSE 32768
ClaimSubtrahend(m) == IF m \in {"cl51", "cl31"} THEN 1048576 ELSE 65536

\* bit test by the residue: v AND mask # 0 for mask a power of two
MaskBitSet(v, mask) == v % (2 * mask) >= mask

\* C6: in the matrix _read_backscatter returns, for every profile and gate,
\* a raw integer v with (v AND mask) # 0 has become v - subtrahend and any
\* other raw integer is unchanged, with (524288, 1048576) for cl31/cl51 and
\* (32768, 65536) for ct25k.
C6_OverflowCorrection ==
    (entry = "read_backscatter" /\ pc = "returned") =>
        \A p \in 1..Len(Val(profiles)) : \A g \in 1..Len(Val(profiles)[p]) :
            LET v == Val(profiles)[p][g]
                b == Val(backscatter)[p][g].num
            IN  IF MaskBitSet(v, ClaimMask(model))
                THEN b = v - ClaimSubtrahend(model)
                ELSE b = v

\* C6 witness: a ct25k decode has returned a matrix in which the raw integer
\* 32768 became -32768 and the raw integer 1 stayed 1.
C6_Witness ==
    /\ entry = "read_backscatter"
    /\ pc = "returned"
    /\ model = "ct25k"
    /\ \E p \in 1..Len(Val(profiles)) : \E g, h \in 1..Len(Val(profiles)[p]) :
          /\ Val(profiles)[p][g] = 32768 /\ Val(backscatter)[p][g].num = 0 - 32768
          /\ Val(profiles)[p][h] = 1 /\ Val(backscatter)[p][h].num = 1

ClaimNChars(m) == IF m \in {"cl51", "cl31"} THEN 5 ELSE 4

\* a line with a chunk of n_chars characters that is not valid hexadecimal
Malformed(m, line) ==
    \E g \in 1..(Len(line) \div ClaimNChars(m)) :
        ~PyInt(Slice(line, (g - 1) * ClaimNChars(m), g * ClaimNChars(m)), 16).ok

Without(seq, b) == [i \in 1..(Len(seq) - 1) |-> IF i < b THEN seq[i] ELSE seq[i + 1]]

\* C7: a profile line with a chunk that is not valid hexadecimal does not
\* abort the decoding, its whole row is zero in the returned matrix, and every
\* other profile's row equals its row in the matrix decoded from the lines
\* without the malformed one.
C7_MalformedLineIsolated ==
    (entry = "read_backscatter" /\ pc \notin {"read_backscatter", "correct_and_scale"}) =>
        \A b \in 1..Len(lines) :
            Malformed(model, lines[b]) =>
                /\ pc = "returned"
                /\ \A g \in 1..Len(Val(backscatter)[b]) : Val(backscatter)[b][g].num = 0
                /\ Len(lines) > 1 =>
                      LET rest == read_backscatter(model, Without(lines, b)).val
                      IN  \A p \in 1..Len(lines) :
                             p # b => Val(backscatter)[p] = rest[IF p < b THEN p ELSE p - 1]

Line00001 == <<"0", "0", "0", "0", "1">>

\* C8 as stated: "00001" decoded by a cl51 session with n_chars = 4 gives the
\* integer 1, overflow bit clear, backscatter 1/1e8.
C8_ScenarioA_NChars4 ==
    (entry = "read_backscatter" /\ pc = "returned" /\ ceilo = "Cl51"
     /\ lines = <<Line00001>>)
        => /\ hex_conversion_params(model)[1] = 4
           /\ Val(profiles) = <<<<1>>>>
           /\ ~MaskBitSet(1, 524288)
           /\ Val(backscatter) = <<<<[num |-> 1, den |-> 100000000, r |-> 1000]>>>>

\* C8 amended: "00001" decoded by a cl51 session, whose n_chars is 5 (mask
\* 524288), gives the integer 1, overflow bit clear, backscatter 1/1e8.
C8_ScenarioA ==
    (entry = "read_backscatter" /\ pc = "returned" /\ ceilo = "Cl51"
     /\ lines = <<Line00001>>)
        => /\ hex_conversion_params(model)[1] = 5
           /\ hex_conversion_params(model)[2] = 524288
           /\ Val(profiles) = <<<<1>>>>
           /\ ~MaskBitSet(Val(profiles)[1][1], 524288)
           /\ Val(backscatter) = <<<<[num |-> 1, den |-> 100000000, r |-> 1000]>>>>

\* C8 witness: a cl51 session has decoded the one line "00001".
C8_Witness ==
    /\ entry = "read_backscatter"
    /\ pc = "returned"
    /\ ceilo = "Cl51"
    /\ lines = <<Line00001>>
    /\ Val(backscatter)[1][1].num = 1

\* an integer literal of the model's alphabet: an optional sign and decimal digits
IsIntLiteral(s) ==
    LET d == IF s # <<>> /\ s[1] \in {"+", "-"} THEN Tail(s) ELSE s
    IN  d # <<>> /\ \A i \in 1..Len(d) : IsDecimalDigit(<<d[i]>>)

RECURSIVE NatOf(_)
NatOf(d) == IF d = <<>> THEN 0
            ELSE 10 * NatOf(SubSeq(d, 1, Len(d) - 1)) + DecimalDigitOf(<<d[Len(d)]>>)

IntOf(s) == IF s[1] = "-" THEN 0 - NatOf(Tail(s))
            ELSE IF s[1] = "+" THEN NatOf(Tail(s)) ELSE NatOf(s)

Differ(a) == \E i, j \in 1..Len(a) : a[i] # a[j]

\* C9: in the metadata _handle_metadata returns, a field whose values differ
\* across profiles holds, position by position, the integer of every value
\* that converts and the original string of every value that does not.
C9_ArrayCoercionKeepsStrings ==
    (entry = "handle_metadata" /\ pc = "returned") =>
        \A k \in DOMAIN Val(metadata) :
            LET orig == Val(header[1])[k]
                new == Val(metadata)[k]
            IN  Differ(orig) =>
                    /\ new.t = "list"
                    /\ Len(new.v) = Len(orig)
                    /\ \A i \in 1..Len(orig) :
                          IF IsIntLiteral(orig[i])
                          THEN new.v[i].t = "int" /\ new.v[i].v = IntOf(orig[i])
                          ELSE new.v[i].t = "str" /\ new.v[i].v = orig[i]

\* C10: when a fixed integer field (tilt_angle, message_number, scale) has
\* collapsed to a scalar that is no integer literal, _handle_metadata still
\* returns the merged metadata and the decode is not aborted.
C10_ScalarCoercionBestEffort ==
    (/\ entry = "handle_metadata" \/ (entry = "ceilo2nc" /\ HeaderComplete)
     /\ pc # "handle_metadata"
     /\ \A i \in 1..Len(header) : ~IsNone(header[i])
     /\ \E i \in 1..Len(header) :
           \E k \in DOMAIN Val(header[i]) \cap {"tilt_angle", "message_number", "scale"} :
              ~Differ(Val(header[i])[k]) /\ ~IsIntLiteral(Val(header[i])[k][1]))
        => (pc # "failed" /\ err = "none" /\ ~IsNone(metadata))

\* the characters of line with 0-based index a <= i < b, as far as the line has them
Chars(line, a, b) ==
    LET hi == IF b < Len(line) THEN b ELSE Len(line)
    IN  IF hi > a THEN [k \in 1..(hi - a) |-> line[a + k]] ELSE <<>>

\* C14: _read_header_line_1 applied to a list of lines returns the 5 fields
\* model_id, unit_id, software_version, message_number, message_subclass and
\* nothing else, each with one value per line: the slices [1:3], [3:4], [4:7],
\* [7:8], [8:9] of the line for cl31/cl51 and [1:3], [3:4], [4:6], [6:7],
\* [7:8] for ct25k.
C14_HeaderLine1Fields ==
    (entry = "read_header_line_1" /\ pc # "read_header_line_1") =>
        /\ pc = "returned"
        /\ Len(header) = 1
        /\ LET d == Val(header[1])
               ls == data_lines[2]
               cl == model \in {"cl51", "cl31"}
           IN  /\ DOMAIN d = {"model_id", "unit_id", "software_version",
                              "message_number", "message_subclass"}
               /\ \A k \in DOMAIN d : Len(d[k]) = Len(ls)
               /\ \A r \in 1..Len(ls) :
                     /\ d["model_id"][r] = Chars(ls[r], 1, 3)
                     /\ d["unit_id"][r] = Chars(ls[r], 3, 4)
                     /\ d["software_version"][r] =
                           (IF cl THEN Chars(ls[r], 4, 7) ELSE Chars(ls[r], 4, 6))
                     /\ d["message_number"][r] =
                           (IF cl THEN Chars(ls[r], 7, 8) ELSE Chars(ls[r], 6, 7))
                     /\ d["message_subclass"][r] =
                           (IF cl THEN Chars(ls[r], 8, 9) ELSE Chars(ls[r], 7, 8))

\* C14 witness: a cl31 session has decoded a whole header line 1, message
\* number "2" from slice [7:8], and a line cut short before that slice.
C14_Witness ==
    /\ entry = "read_header_line_1"
    /\ pc = "returned"
    /\ model = "cl31"
    /\ Len(data_lines[2]) = 2
    /\ Len(data_lines[2][1]) >= 9
    /\ Len(data_lines[2][2]) = 5
    /\ Val(header[1])["message_number"] = <<<<"2">>, <<>>>>
    /\ Val(header[1])["software_version"][1] = <<"2", "0", "0">>

\* 0-based indices of the blank lines of f, ascending
RECURSIVE SentinelsFrom(_, _)
SentinelsFrom(f, i) ==
    IF i > Len(f) THEN <<>>
    ELSE (IF IsBlank(f[i]) THEN <<i - 1>> ELSE <<>>) \o SentinelsFrom(f, i + 1)

Sentinels(f) == SentinelsFrom(f, 1)

\* C15: for a file with at least two blank lines the splitter returns
\* n = (second blank index - first blank index - 1) columns, column k
\* (0 <= k < n) holding for every blank line, the last one included, in file
\* order, the line at index (blank index + k + 1).
C15_SplitterColumns ==
    (entry = "fetch_data_lines" /\ pc # "fetch_data_lines" /\ Len(Sentinels(file)) >= 2) =>
        LET sen == Sentinels(file)
            n == sen[2] - sen[1] - 1
        IN  /\ pc = "returned"
            /\ Len(data_lines) = n
            /\ \A k \in 0..(n - 1) :
                  /\ Len(data_lines[k + 1]) = Len(sen)
                  /\ \A i \in 1..Len(sen) : data_lines[k + 1][i] = file[sen[i] + k + 1 + 1]

\* column k of the splitter's result: for every blank line of f, in file
\* order, the line at index (blank index + k + 1); '' where f has no such line
Column(f, k) ==
    [i \in 1..Len(Sentinels(f)) |->
        IF Sentinels(f)[i] + k + 2 <= Len(f) THEN f[Sentinels(f)[i] + k + 2] ELSE <<>>]

NColumns(f) == Sentinels(f)[2] - Sentinels(f)[1] - 1

\* C16 as stated: header line 1 is decoded from column 0, header line 2 from
\* column 1, header line 3 from column 2.
C16_ColumnRoles ==
    /\ (entry = "ceilo2nc" /\ Len(header) >= 1) =>
          /\ read_header_line_1(model, Column(file, 0)).err = "none"
          /\ Val(header[1]) = read_header_line_1(model, Column(file, 0)).val
    /\ (entry = "ceilo2nc" /\ Len(header) >= 2) =>
          /\ read_header_line_2(Column(file, 1)).err = "none"
          /\ Val(header[2]) = read_header_line_2(Column(file, 1)).val
    /\ (entry = "ceilo2nc" /\ Len(header) >= 3 /\ ~IsNone(header[3])) =>
          /\ read_header_line_3(model, Val(message_number), Column(file, 2)).err = "none"
          /\ header[3] = read_header_line_3(model, Val(message_number), Column(file, 2)).val

\* C16 amended: column 0 holds the time stamps; header line 1 is decoded from
\* column 1, header line 2 from column 2, header line 3 from column 3; a
\* cl31/cl51 session decodes header line 4 from the third column from the end
\* and the backscatter from the second column from the end; a ct25k session
\* decodes the backscatter from the hex lines of columns 4 to 19.
C16_ColumnRolesFromTime ==
    /\ (entry = "ceilo2nc" /\ ~IsNone(time)) =>
          Val(time) = calc_time(Column(file, 0)).val
    /\ (entry = "ceilo2nc" /\ Len(header) >= 1) =>
          Val(header[1]) = read_header_line_1(model, Column(file, 1)).val
    /\ (entry = "ceilo2nc" /\ Len(header) >= 2) =>
          Val(header[2]) = read_header_line_2(Column(file, 2)).val
    /\ (entry = "ceilo2nc" /\ Len(header) >= 3) =>
          header[3] = read_header_line_3(model, Val(message_number), Column(file, 3)).val
    /\ (entry = "ceilo2nc" /\ Len(header) >= 4) =>
          Val(header[4]) = read_header_line_4(Column(file, NColumns(file) - 3)).val
    /\ (entry = "ceilo2nc" /\ ~IsNone(profiles)) =>
          IF model \in {"cl51", "cl31"}
          THEN lines = Column(file, NColumns(file) - 2)
          ELSE lines = parse_hex_profiles([k \in 1..16 |-> Column(file, k + 3)]).val

\* C16 witness: a cl31 session has decoded its time stamps, its four header
\* lines (message number 2, header line 3 present) and its backscatter lines.
C16_Witness ==
    /\ entry = "ceilo2nc"
    /\ ~IsNone(time)
    /\ ~IsNone(backscatter)
    /\ Len(header) = 4
    /\ model = "cl31"
    /\ ~IsNone(header[3])

\* C17: after a successful read_ceilometer_file, backscatter has one row per
\* time stamp (one per message of the file) and one column per range gate,
\* and range is range_resolution * (1..n_gates): 30 m and 256 gates for ct25k,
\* range_resolution and number_of_gates of the metadata for cl31/cl51.
C17_ArraysConsistent ==
    (entry = "ceilo2nc" /\ pc = "done") =>
        /\ Len(Val(time)) = Len(Sentinels(file))
        /\ Len(Val(backscatter)) = Len(Val(time))
        /\ \A p \in 1..Len(Val(backscatter)) : Len(Val(backscatter)[p]) = Len(Val(range))
        /\ LET res == IF model = "ct25k" THEN 30
                      ELSE meta_int(Val(metadata)["range_resolution"]).val
               n == IF model = "ct25k" THEN 256
                    ELSE meta_int(Val(metadata)["number_of_gates"]).val
           IN  /\ Len(Val(range)) = n
               /\ \A g \in 1..n : Val(range)[g] = res * g

\* the decoded value of the raw integer v: numerator and scale factor
Decoded(m, v) ==
    [num |-> IF MaskBitSet(v, ClaimMask(m)) THEN v - ClaimSubtrahend(m) ELSE v,
     den |-> IF m \in {"cl51", "cl31"} THEN 100000000 ELSE 10000000]

\* C18: right after read_ceilometer_file, a ct25k session's backscatter[p,g]
\* is the decoded value times (range[g]/1000)^2 where range[g] > 2400 and the
\* decoded value itself where range[g] <= 2400, in every profile alike (the
\* gate at 2400 m is not corrected); a cl31/cl51 session's backscatter is the
\* decoded value at every gate.
C18_UpperPartByGate ==
    (entry = "ceilo2nc" /\ pc = "done") =>
        \A p \in 1..Len(Val(backscatter)) : \A g \in 1..Len(Val(backscatter)[p]) :
            LET b == Val(backscatter)[p][g]
                d == Decoded(model, Val(profiles)[p][g])
            IN  /\ b.num = d.num
                /\ b.den = d.den
                /\ b.r = (IF model = "ct25k" /\ Val(range)[g] > 2400
                          THEN Val(range)[g] ELSE 1000)

\* C18 witness: a ct25k session of two profiles is read; in both, gate 80
\* (2400 m) holds the decoded value and gate 81 (2430 m) the corrected one.
C18_Witness ==
    /\ entry = "ceilo2nc"
    /\ pc = "done"
    /\ model = "ct25k"
    /\ Len(Val(backscatter)) = 2
    /\ Val(range)[80] = 2400
    /\ \A p \in 1..2 : /\ Val(backscatter)[p][80].r = 1000
                       /\ Val(backscatter)[p][81].r = 2430
                       /\ Val(backscatter)[p][80].num # 0

\* the averaging window and the saturation-variance-limit of a model
ClaimNGates(m) == IF m = "ct25k" THEN 40 ELSE 100
ClaimVarLimCt == FDec(2, 14)
ClaimVarLimCl == FDec(1, 12)
ClaimVarLim(m) == IF m = "ct25k" THEN ClaimVarLimCt ELSE ClaimVarLimCl

\* the last n backscatter bins of profile p, or all of them when there are fewer
LastBins(p, n) ==
    LET row == Val(backscatter)[p]
        k == Min(Len(row), n)
    IN  [g \in 1..k |-> as_float(row[Len(row) - k + g])]

C12_ScreeningIdempotent ==
    (entry = "screening_wrapper" /\ ~smooth /\ beta_again # None) =>
        \A p \in 1..Len(Val(beta)) : \A g \in 1..Len(Val(beta)[p]) :
            (Val(beta_again)[p][g] = FZero) = (Val(beta)[p][g] = FZero)

\* the value of bin (p, g) as decoded, before any range correction
PreCorrection(p, g) ==
    FDiv(FInt(Val(backscatter)[p][g].num), FInt(Val(backscatter)[p][g].den))

\* (altitude in km)^2 of gate g
AltitudeKm2(g) ==
    LET km == FMul(FInt(Val(range)[g]), FDec(1, 3)) IN FMul(km, km)

\* the bins of a ct25k session above 2400 m
UpperBins ==
    {pg \in (1..Len(Val(backscatter))) \X (1..Len(Val(range))) : Val(range)[pg[2]] > 2400}

\* C13 (Scenario D): when calc_beta has computed beta for a ct25k session,
\* every bin of beta with altitude > 2400 m equals the pre-correction value
\* multiplied by (altitude_km)^2.
C13_ScenarioD ==
    (entry = "calc_beta" /\ model = "ct25k" /\ beta # None) =>
        \A pg \in UpperBins :
            Val(beta)[pg[1]][pg[2]] = FMul(PreCorrection(pg[1], pg[2]), AltitudeKm2(pg[2]))

\* C13 as the code has it: every bin of beta with altitude > 2400 m is either
\* 0 (the bin was screened out) or the pre-correction value multiplied by
\* (altitude_km)^2 and passed through the division by and the multiplication
\* with range_squared of the screening.
C13_ScenarioD_Screened ==
    (entry = "calc_beta" /\ model = "ct25k" /\ beta # None) =>
        \A pg \in UpperBins :
            LET b == FMul(PreCorrection(pg[1], pg[2]), AltitudeKm2(pg[2]))
            IN  \/ Val(beta)[pg[1]][pg[2]] = FZero
                \/ Val(beta)[pg[1]][pg[2]]
                       = FMul(FDiv(b, AltitudeKm2(pg[2])), AltitudeKm2(pg[2]))

\* C13 witness: beta of a ct25k session has, above 2400 m, a bin that kept
\* its corrected value (gate 101, 3030 m) and a bin with a decoded value
\* other than 0 that was screened out (gate 81, 2430 m).
C13_Witness ==
    /\ entry = "calc_beta"
    /\ model = "ct25k"
    /\ beta # None
    /\ Val(range)[81] = 2430
    /\ Val(backscatter)[1][81].num # 0
    /\ Val(beta)[1][81] = FZero
    /\ Val(beta)[1][101] # FZero
    /\ Val(beta)[1][101] = FMul(PreCorrection(1, 101), AltitudeKm2(101))

\* the floor of a pass, the pair of floors being ordered (raw, smoothed)
ClaimFloor(class, smoothed) ==
    IF smoothed THEN noise_params(class).noise_min[2] ELSE noise_params(class).noise_min[1]

\* C19: the noise estimate of every profile is floored at the first element
\* of the model's pair of minimum-noise floors in the unsmoothed pass and at
\* the second element in the smoothed pass: it is that floor where the
\* standard deviation of the window is below it and the standard deviation
\* elsewhere.
C19_NoiseFloors ==
    (entry = "screening_wrapper" /\ noise_at_top # None) =>
        \A p \in 1..Len(Val(noise_at_top)) :
            Val(noise_at_top)[p].floor
                = (IF StdLess(Val(noise_at_top)[p].var, ClaimFloor(ceilo, smooth))
                   THEN Some(ClaimFloor(ceilo, smooth)) ELSE None)

\* profile p of the input backscatter, range-uncorrected
UncorrectedProfile(p) ==
    LET n == Len(Val(backscatter)[p])
    IN  SubSeq([g \in 1..n |->
                   FDiv(as_float(Val(backscatter)[p][g]), Val(range_squared)[g])],
               1, n)

\* the bins of the range-uncorrected profile row that the saturation step
\* zeroes: those at or after the peak that are below the saturation noise,
\* in a saturated profile
SaturationZeroed(row, saturated) ==
    IF saturated
    THEN {g \in argmax(row)..Len(row) : FLess(row[g], noise_params(ceilo).saturation_noise)}
    ELSE {}

\* a and b have the same sign and |a - b| <= |b| * 2^-51
Close(a, b) ==
    /\ a.neg = b.neg
    /\ a.m # <<>>
    /\ b.m # <<>>
    /\ LET E == Min(a.e, b.e)
           A == BShl(a.m, a.e - E)
           B == BShl(b.m, b.e - E)
       IN  ~BLess(B, BShl(IF BLess(A, B) THEN BSub(B, A) ELSE BSub(A, B), 51))

\* profile p of beta is 0 in the bins of zeroed and in the bins of row whose
\* SNR against the noise estimate of row is below 5, and holds the input in
\* the other bins: the very input, or (rounded) the product of row[g] and
\* range_squared[g], close to the input
FirstPassProfile(p, row, zeroed, rounded) ==
    /\ Val(noise_at_top)[p] = noise_estimate(noise_params(ceilo), FALSE, row)
    /\ \A g \in 1..Len(row) :
          IF g \in zeroed \/ below_snr(row[g], Val(noise_at_top)[p])
          THEN Val(beta)[p][g] = FZero
          ELSE IF rounded
               THEN /\ Val(beta)[p][g] = FMul(row[g], Val(range_squared)[g])
                    /\ Close(Val(beta)[p][g], as_float(Val(backscatter)[p][g]))
               ELSE Val(beta)[p][g] = as_float(Val(backscatter)[p][g])

\* C20: in the first-pass output beta of calc_beta, beta[p,g] is 0 when the
\* range-uncorrected value divided by the noise estimate of p is below 5 or
\* the bin was zeroed by the saturation step, and equals backscatter[p,g]
\* otherwise; the noise estimate of p is the one of the last n_gates bins of
\* the range-uncorrected profile with no bin zeroed yet.
C20_FirstPassBeta ==
    (entry = "calc_beta" /\ beta # None) =>
        \A p \in 1..Len(Val(backscatter)) :
            FirstPassProfile(p, UncorrectedProfile(p),
                             SaturationZeroed(UncorrectedProfile(p), Val(is_saturation)[p]),
                             FALSE)

\* C20 as the code has it: a bin that is not zeroed holds the quotient of
\* backscatter[p,g] by range_squared[g] multiplied by range_squared[g], which
\* is backscatter[p,g] up to a relative difference of 2^-51.
C20_FirstPassBetaRounded ==
    (entry = "calc_beta" /\ beta # None) =>
        \A p \in 1..Len(Val(backscatter)) :
            FirstPassProfile(p, UncorrectedProfile(p),
                             SaturationZeroed(UncorrectedProfile(p), Val(is_saturation)[p]),
                             TRUE)

\* C20 witness: beta of a session with the decoded profiles (1, 5) and
\* (1, 6): bin 2 of the first profile is kept and differs from the input in
\* the last bit, bin 1 of the second is zeroed for its SNR, bin 2 of the
\* second is kept and equals the input.
C20_Witness ==
    /\ entry = "calc_beta"
    /\ beta # None
    /\ Len(Val(backscatter)) = 2
    /\ Len(Val(backscatter)[1]) = 2
    /\ Val(backscatter)[1][2].num = 5
    /\ Val(backscatter)[2][2].num = 6
    /\ Val(beta)[1][2] # FZero
    /\ Val(beta)[1][2] # as_float(Val(backscatter)[1][2])
    /\ Val(backscatter)[2][1].num = 1
    /\ Val(beta)[2][1] = FZero
    /\ Val(beta)[2][2] = as_float(Val(backscatter)[2][2])

\* the saturation-noise-threshold of a model
ClaimSaturationNoiseCt == FDec(3, 7)
ClaimSaturationNoiseCl == FDec(3, 6)
ClaimSaturationNoise(m) ==
    IF m = "ct25k" THEN ClaimSaturationNoiseCt ELSE ClaimSaturationNoiseCl

\* the index of the first maximum of a profile
FirstMaximum(row) ==
    CHOOSE i \in 1..Len(row) :
        \A j \in 1..Len(row) : IF j < i THEN FLess(row[j], row[i]) ELSE ~FLess(row[i], row[j])

\* profile p of the local beta of _screen_by_snr is row with 0 in the bins
\* at or after the first maximum of row that are below threshold when
\* saturated, and is row when not saturated
SaturationFrame(p, row, saturated, threshold) ==
    LET peak == FirstMaximum(row)
    IN  \A g \in 1..Len(row) :
            Val(screened)[p][g]
                = (IF saturated /\ g >= peak /\ FLess(row[g], threshold)
                   THEN FZero ELSE row[g])

\* C21: when the saturation loop of _screen_by_snr has run on the copy of a
\* range-uncorrected field, the copy is 0 in exactly those bins of the
\* profiles flagged saturated that are at or after the index of the first
\* maximum of the profile and hold a value below the saturation noise of the
\* model, and holds the value of the argument in every other bin: in the bins
\* before the peak of a saturated profile and in every bin of a profile that
\* is not flagged.
C21_SaturationStepFrame ==
    (entry = "screen_by_snr" /\ pc = "snr_zero") =>
        \A p \in 1..Len(Val(beta_in)) :
            SaturationFrame(p, Val(beta_in)[p], Val(is_saturation)[p],
                            ClaimSaturationNoise(model))

\* C21 witness: two profiles (1, 6, 10) at 1000, 2000 and 3000 m, the first
\* flagged saturated and the second not.  The peak of both is bin 2.  The
\* loop has kept bin 1 of the first profile, which is below the saturation
\* noise, has zeroed bins 2 and 3 of it, and has kept the second profile.
C21_Witness ==
    /\ entry = "screen_by_snr"
    /\ pc = "snr_zero"
    /\ is_saturation = Some(<<TRUE, FALSE>>)
    /\ range = Some(<<1000, 2000, 3000>>)
    /\ \A p \in 1..2 : /\ Val(backscatter)[p][1].num = 1
                       /\ Val(backscatter)[p][2].num = 6
                       /\ Val(backscatter)[p][3].num = 10
    /\ FirstMaximum(Val(beta_in)[1]) = 2
    /\ FLess(Val(beta_in)[1][1], ClaimSaturationNoise(model))
    /\ Val(screened)[1][1] = Val(beta_in)[1][1]
    /\ Val(screened)[1][1] # FZero
    /\ Val(beta_in)[1][3] # FZero
    /\ Val(screened)[1][2] = FZero
    /\ Val(screened)[1][3] = FZero
    /\ Val(screened)[2] = Val(beta_in)[2]
    /\ FLess(Val(beta_in)[2][3], ClaimSaturationNoise(model))

\* the cloud limit
ClaimCloudLimit == FDec(1, 6)

\* the Gaussian-smoothed field: the library's smoothing of the first-pass beta
Smoothed ==
    LET f == gaussian_filter(Val(beta), kernel)
    IN  [p \in 1..Len(f) |-> SubSeq(f[p], 1, Len(f[p]))]

\* field holds the value of beta where beta is a cloud bin, taken as
\* beta > limit (strict) or as beta >= limit, and the value of smoothed
\* elsewhere
CloudsRestored(field, smoothed, limit, strict) ==
    \A p \in 1..Len(field) : \A g \in 1..Len(field[p]) :
        LET b == Val(beta)[p][g]
            cloud == IF strict THEN FLess(limit, b) ELSE ~FLess(b, limit)
        IN  field[p][g] = (IF cloud THEN b ELSE smoothed[p][g])

\* C22: the field that calc_beta hands to the second (smoothed) screening
\* pass holds, at every position where the first-pass beta is strictly
\* greater than 1e-6, the value of beta at that position, and the
\* Gaussian-smoothed value at every other position; a bin with beta equal to
\* 1e-6 is among the other positions.
C22_CloudBinsRestored ==
    (entry = "calc_beta" /\ pc = "uncorrect_range" /\ smooth) =>
        CloudsRestored(Val(beta_in), Smoothed, ClaimCloudLimit, TRUE)

\* C22 witness: the second profile (100, 300) of a session follows a profile
\* without signal, and the library smooths along time.  Bin 1 of its beta
\* is 1e-6 and bin 2 is above it; the field handed to the second pass holds
\* the smoothed value in bin 1 and beta, not the smoothed value, in bin 2.
C22_Witness ==
    /\ entry = "calc_beta"
    /\ pc = "uncorrect_range"
    /\ smooth
    /\ kernel = "time"
    /\ Len(Val(backscatter)) = 2
    /\ Len(Val(backscatter)[2]) = 2
    /\ Val(beta)[2][1] = ClaimCloudLimit
    /\ Val(beta_in)[2][1] = Smoothed[2][1]
    /\ Val(beta_in)[2][1] # Val(beta)[2][1]
    /\ FLess(ClaimCloudLimit, Val(beta)[2][2])
    /\ Val(beta_in)[2][2] = Val(beta)[2][2]
    /\ Val(beta_in)[2][2] # Smoothed[2][2]

\* a step leaves what calc_beta reads of the session as it was; noise_params
\* is an attribute of the class of the session
SessionUnchanged ==
    /\ backscatter' = backscatter
    /\ range' = range
    /\ time' = time
    /\ metadata' = metadata
    /\ ceilo' = ceilo
    /\ noise_params(ceilo') = noise_params(ceilo)

\* a step of the call that has computed beta leaves beta as it was
BetaKept == (beta # None /\ pc # "returned") => beta' = beta

\* every call so far has returned the pair that the first call returned
SamePairs == \A i \in 1..Len(returned') : returned'[i] = returned'[1]

\* C23: no step of calc_beta changes ceilo.backscatter, ceilo.range,
\* ceilo.time, ceilo.metadata or ceilo.noise_params; every call of calc_beta
\* on the same decoded session returns the pair (beta, beta_smooth) that the
\* first call returned; and once beta is computed no later step of the call,
\* the computation of beta_smooth, alters it.
C23_CalcBetaReadOnly == [][SessionUnchanged /\ BetaKept /\ SamePairs]_vars

\* C23 witness: calc_beta has returned twice on a session with cloud bins
\* that the library smooths along range; the second call has written its
\* smoothed array, beta_smooth differs from beta, and the two returned pairs
\* are the same.
C23_Witness ==
    /\ entry = "calc_beta"
    /\ pc = "returned"
    /\ Len(returned) = 2
    /\ returned[2] = returned[1]
    /\ kernel = "range"
    /\ Val(cloud_ind) # <<>>
    /\ returned[2].beta # returned[2].beta_smooth
    /\ returned[2].beta = Val(beta)
    /\ \E p \in 1..Len(Val(beta)) : \E g \in 1..Len(Val(beta)[p]) :
          Val(beta)[p][g] # as_float(Val(backscatter)[p][g])

\* the noise floor that a pass uses (line 314): the first element of the pair
\* of floors in the smoothed pass and the second in the raw pass
ClaimFloorUsedCl(smoothed) == IF smoothed THEN FDec(11, 9) ELSE FDec(29, 9)
ClaimFloorUsedCt(smoothed) == IF smoothed THEN FDec(3, 10) ELSE FDec(15, 10)
ClaimFloorUsed(m, smoothed) ==
    IF m = "ct25k" THEN ClaimFloorUsedCt(smoothed) ELSE ClaimFloorUsedCl(smoothed)

\* x > 0
Positive(x) == x.m # <<>> /\ ~x.neg

\* every bin of the output out of a pass is 0 with a range-uncorrected value
\* of 0, or is positive with a positive range-uncorrected value that, divided
\* by floor, is at least 5; uncorrected is the screened field before
\* _correct_range
NonNegative(out, uncorrected, floor) ==
    \A p \in 1..Len(out) : \A g \in 1..Len(out[p]) :
        \/ out[p][g] = FZero /\ uncorrected[p][g] = FZero
        \/ /\ Positive(out[p][g])
           /\ Positive(uncorrected[p][g])
           /\ ~FLess(FDiv(uncorrected[p][g], floor), FInt(5))

\* every bin decoded as a negative value is 0 in beta
NegativesZeroed ==
    \A p \in 1..Len(Val(beta)) : \A g \in 1..Len(Val(beta)[p]) :
        Val(backscatter)[p][g].num < 0 => Val(beta)[p][g] = FZero

\* C24: when a pass of calc_beta has returned its output (beta after the
\* first pass, beta_smooth after the second), every bin of the output is 0 or
\* strictly positive, and the range-uncorrected value of a bin that is not 0
\* divided by the noise floor used in that pass is at least 5; every bin
\* whose decoded backscatter is negative is 0 in beta.
C24_OutputsNonNegative ==
    /\ (entry = "calc_beta" /\ pc = "copy_beta") =>
           /\ NonNegative(Val(beta), Val(beta_in), ClaimFloorUsed(model, FALSE))
           /\ NegativesZeroed
    /\ (entry = "calc_beta" /\ pc = "return") =>
           /\ NonNegative(Val(beta_smooth), Val(beta_in), ClaimFloorUsed(model, TRUE))
           /\ \A p \in 1..Len(Val(beta)) : \A g \in 1..Len(Val(beta)[p]) :
                  Val(beta)[p][g] = FZero \/ Positive(Val(beta)[p][g])

\* C24 witness: calc_beta is about to return for a ct25k session whose bin 3
\* is decoded as -3000 units while the last 40 bins are decoded as 0 or 1
\* unit, so that its magnitude is far above 5 times the noise; the bin is 0
\* in beta and in beta_smooth, and the peak at bin 5 is positive in both.
C24_Witness ==
    /\ entry = "calc_beta"
    /\ pc = "return"
    /\ model = "ct25k"
    /\ Val(backscatter)[1][3].num = 0 - 3000
    /\ \A g \in 217..256 : Val(backscatter)[1][g].num \in {0, 1}
    /\ Val(beta)[1][3] = FZero
    /\ Val(beta_smooth)[1][3] = FZero
    /\ Positive(Val(beta)[1][5])
    /\ Positive(Val(beta_smooth)[1][5])

=============================================================================
